---- MODULE Spec2Model ----
(***************************************************************************)
(* A model of the zalgo codec: the byte mapping, zalgo_encode and          *)
(* zalgo_decode of zalgo_codec_common (src/common/src/lib.rs) and the      *)
(* ZalgoString wrapper type (src/common/src/zalgo_string/mod.rs).          *)
(*                                                                         *)
(* A Rust &str / String / Vec<u8> is a sequence of bytes (0..255); a &str  *)
(* is always valid UTF-8.  Rust indexes from 0, TLA+ sequences from 1: the *)
(* byte the code calls bytes[k] is bytes[k + 1] here.                      *)
(***************************************************************************)
EXTENDS Integers, Sequences, FiniteSets, TLC

----------------------------------------------------------------------------
(* Bounds of the model.                                                    *)

\* Longest caller text, in characters, built from Alphabet.
MaxLen == 3
\* Longest tail, in characters, put after a run of padding that fills or
\* nearly fills one batch of the encoder.
MaxTail == 1
\* Most push_zalgo_str calls made on one ZalgoString.
MaxPush == 3

----------------------------------------------------------------------------
(* u8 arithmetic and bit operations.                                       *)

Min(a, b) == IF a < b THEN a ELSE b

RECURSIVE BitAnd(_, _)
\* a & b on unsigned integers.
BitAnd(a, b) ==
    IF a = 0 \/ b = 0 THEN 0
    ELSE (IF a % 2 = 1 /\ b % 2 = 1 THEN 1 ELSE 0) + 2 * BitAnd(a \div 2, b \div 2)

RECURSIVE BitOr(_, _)
\* a | b on unsigned integers.
BitOr(a, b) ==
    IF a = 0 THEN b
    ELSE IF b = 0 THEN a
    ELSE (IF a % 2 = 1 \/ b % 2 = 1 THEN 1 ELSE 0) + 2 * BitOr(a \div 2, b \div 2)

\* x << n on u8: the bits shifted out of the byte are lost.
Shl8(x, n) == (x * (2 ^ n)) % 256

\* x >> n on u8.
Shr8(x, n) == x \div (2 ^ n)

----------------------------------------------------------------------------
(* UTF-8: what every &str satisfies and what String::from_utf8 checks.     *)

IsContinuation(b) == b \in 128..191

\* Number of bytes of the character whose first byte is b; 0 when b cannot
\* start a character.
Utf8Width(b) ==
    IF b < 128 THEN 1
    ELSE IF b \in 194..223 THEN 2
    ELSE IF b \in 224..239 THEN 3
    ELSE IF b \in 240..244 THEN 4
    ELSE 0

\* The second byte of a 3- or 4-byte character is restricted further
\* (no overlong forms, no surrogates, nothing above U+10FFFF).
SecondByteOk(lead, b) ==
    IF lead = 224 THEN b \in 160..191
    ELSE IF lead = 237 THEN b \in 128..159
    ELSE IF lead = 240 THEN b \in 144..191
    ELSE IF lead = 244 THEN b \in 128..143
    ELSE IsContinuation(b)

RECURSIVE ValidUtf8From(_, _)
ValidUtf8From(bytes, k) ==
    IF k > Len(bytes) THEN TRUE
    ELSE LET w == Utf8Width(bytes[k]) IN
         /\ w > 0
         /\ k + w - 1 <= Len(bytes)
         /\ w >= 2 => SecondByteOk(bytes[k], bytes[k + 1])
         /\ \A m \in (k + 2)..(k + w - 1) : IsContinuation(bytes[m])
         /\ ValidUtf8From(bytes, k + w)

\* core::str::from_utf8(bytes).is_ok()
IsValidUtf8(bytes) == ValidUtf8From(bytes, 1)

\* str::is_char_boundary(idx), idx 0-indexed.
IsCharBoundary(string, idx) ==
    \/ idx = 0
    \/ idx = Len(string)
    \/ idx < Len(string) /\ ~IsContinuation(string[idx + 1])

----------------------------------------------------------------------------
(* The byte mapping.                                                       *)

\* We will encode this many bytes at a time before pushing onto the result.
BATCH_SIZE == 16

\* A variant of IsEncodable that also lets DEL (127) through.
IsEncodable_InclusiveRange(byte) == byte \in 32..127 \/ byte = 10

\* (32..127).contains(byte) || *byte == b'\n'
IsEncodable(byte) == byte \in 32..126 \/ byte = 10

\* A variant of EncodedValue without the rem_euclid: the newline is not
\* moved into the slot of DEL.
EncodedValue_NoRemEuclid(byte) == (byte - 32) % 256

\* ((i16::from(*byte) - 11).rem_euclid(133) - 21) as u8
EncodedValue(byte) == (((byte - 11) % 133) - 21) % 256

\* (v >> 6) & 1 | 0b1100_1100
EncodeHigh(v) == BitOr(BitAnd(Shr8(v, 6), 1), 204)

\* A variant of EncodeLow that does not set the top bit.
EncodeLow_NoTopBit(v) == BitAnd(v, 63)

\* (v & 63) | 0b1000_0000
EncodeLow(v) == BitOr(BitAnd(v, 63), 128)

\* The u8 sum inside decode_byte_pair, before it is reduced modulo 133:
\* (odd << 6 & 64 | even & 63) + 22, computed without a width.
DecodeSum(odd, even) == BitOr(BitAnd(Shl8(odd, 6), 64), BitAnd(even, 63)) + 22

\* A variant of decode_byte_pair that drops the extra bit of the first byte.
decode_byte_pair_NoHighBit(odd, even) == (((BitAnd(even, 63) + 22) % 256) % 133) + 10

\* ((odd << 6 & 64 | even & 63) + 22) % 133 + 10, on u8.
decode_byte_pair(odd, even) == ((DecodeSum(odd, even) % 256) % 133) + 10

NonPrintableLow ==
    << "Null", "Start Of Heading", "Start Of Text", "End Of Text",
       "End Of Transmission", "Enquiry", "Acknowledge", "Bell", "Backspace",
       "Horizontal Tab" >>

NonPrintableHigh ==
    << "Vertical Tab", "Form Feed", "Carriage Return", "Shift Out", "Shift In",
       "Data Link Escape", "Data Control 1", "Data Control 2", "Data Control 3",
       "Data Control 4", "Negative Acknowledge", "Synchronous Idle",
       "End Of Transmission Block", "Cancel", "End Of Medium", "Substitute",
       "Escape", "File Separator", "Group Separator", "Record Separator",
       "Unit Separator" >>

\* Option<&'static str>: << name >> for Some(name), << >> for None.
nonprintable_ascii_repr(byte) ==
    IF byte < 10 THEN << NonPrintableLow[byte + 1] >>
    ELSE IF byte >= 11 /\ byte < 32 THEN << NonPrintableHigh[byte - 11 + 1] >>
    ELSE IF byte = 127 THEN << "Delete" >>
    ELSE << >>

----------------------------------------------------------------------------
(* zalgo_encode.                                                           *)

\* A variant of FirstCharFrom that takes the first byte only.
FirstCharFrom_FirstByte(string, idx) ==
    IF idx >= Len(string) THEN [tag |-> "None"]
    ELSE [tag |-> "Some", char |-> << string[idx + 1] >>]

\* string[idx..].chars().next(): the character that starts at byte offset
\* idx.  Slicing panics when idx is past the end or inside a character.
FirstCharFrom(string, idx) ==
    IF idx > Len(string) \/ ~IsCharBoundary(string, idx)
    THEN [tag |-> "Panic", msg |-> "byte index is not a char boundary"]
    ELSE IF idx = Len(string) THEN [tag |-> "None"]
    ELSE [tag |-> "Some",
          char |-> SubSeq(string, idx + 1,
                          Min(Len(string), idx + Utf8Width(string[idx + 1])))]

\* The byte offset at which scanning stopped, which the error reports as its
\* index (EncodeError::index): the offset of batch i's j-th byte.
EncodeErrorIndex(i, j) == i * BATCH_SIZE + j

\* string.as_bytes().chunks(BATCH_SIZE): the i-th chunk, i from 0.
Chunk(string, i) ==
    SubSeq(string, i * BATCH_SIZE + 1, Min((i + 1) * BATCH_SIZE, Len(string)))

\* Number of chunks chunks(BATCH_SIZE) yields.
NumChunks(string) == (Len(string) + BATCH_SIZE - 1) \div BATCH_SIZE

\* The value the else-branch of the inner loop returns for the byte at
\* offset j of batch i.
EncodeFailure(string, i, j, byte, line, column) ==
    LET repr == nonprintable_ascii_repr(byte) IN
    IF repr # << >>
    THEN [tag |-> "Err", variant |-> "UnencodableAscii", char |-> << byte >>,
          line |-> line, column |-> column, repr |-> repr[1],
          index |-> EncodeErrorIndex(i, j)]
    ELSE LET c == FirstCharFrom(string, i * BATCH_SIZE + j) IN
         IF c.tag = "Some"
         THEN [tag |-> "Err", variant |-> "NotAscii", char |-> c.char,
               line |-> line, column |-> column, repr |-> "",
               index |-> EncodeErrorIndex(i, j)]
         ELSE [tag |-> "Panic",
               msg |-> "i*BATCH_SIZE + j is within the string and on a char boundary"]

\* The line being encoded once byte has been encoded:
\* if *byte == b'\n' { line += 1; ... }
LineAfter(byte, line) == IF byte = 10 THEN line + 1 ELSE line

\* A variant of ColumnAfter that does not start again at a newline.
ColumnAfter_NoReset(byte, column) == column + 1

\* The column being encoded once byte has been encoded:
\* if *byte == b'\n' { ...; column = 0; } ...; column += 1;
ColumnAfter(byte, column) == (IF byte = 10 THEN 0 ELSE column) + 1

RECURSIVE EncodeBatch(_, _, _, _, _, _, _, _)
\* The inner loop, from the j-th byte of batch i on: either the batch is
\* encoded into buffer[..encoded], or the call returns an error.
EncodeBatch(string, batch, i, j, line, column, buffer, encoded) ==
    IF j >= Len(batch)
    THEN [tag |-> "Next", line |-> line, column |-> column,
          buffer |-> buffer, encoded |-> encoded]
    ELSE LET byte == batch[j + 1] IN
         IF IsEncodable(byte)
         THEN LET v == EncodedValue(byte)
                  buffer2 == [buffer EXCEPT ![encoded + 1] = EncodeHigh(v),
                                            ![encoded + 2] = EncodeLow(v)]
              IN EncodeBatch(string, batch, i, j + 1, LineAfter(byte, line),
                             ColumnAfter(byte, column), buffer2, encoded + 2)
         ELSE EncodeFailure(string, i, j, byte, line, column)

RECURSIVE EncodeChunks(_, _, _, _, _)
\* The outer loop, from batch i on.
EncodeChunks(string, i, line, column, result) ==
    IF i >= NumChunks(string)
    THEN [tag |-> "Ok", value |-> result]
    ELSE LET r == EncodeBatch(string, Chunk(string, i), i, 0, line, column,
                              [k \in 1..(2 * BATCH_SIZE) |-> 0], 0)
         IN IF r.tag = "Next"
            THEN EncodeChunks(string, i + 1, r.line, r.column,
                              result \o SubSeq(r.buffer, 1, r.encoded))
            ELSE r

\* A variant of zalgo_encode that does not push the initial b'E'.
zalgo_encode_NoAnchor(string) == EncodeChunks(string, 0, 1, 1, << >>)

\* pub fn zalgo_encode(string: &str) -> Result<String, Error>
zalgo_encode(string) == EncodeChunks(string, 0, 1, 1, << 69 >>)

----------------------------------------------------------------------------
(* zalgo_decode.                                                           *)

RECURSIVE DecodeLoop(_, _, _, _, _)
\* for (write, read) in (1..encoded.len()).step_by(2).enumerate()
DecodeLoop(bytes, res, write, read, overflow_checks) ==
    IF read >= Len(bytes) THEN [tag |-> "Done", res |-> res]
    ELSE IF read + 1 >= Len(bytes) THEN [tag |-> "Done", res |-> res]
    ELSE IF write >= Len(res)
    THEN [tag |-> "Panic", msg |-> "index out of bounds"]
    ELSE IF overflow_checks /\ DecodeSum(bytes[read + 1], bytes[read + 2]) > 255
    THEN [tag |-> "Panic", msg |-> "attempt to add with overflow"]
    ELSE DecodeLoop(bytes,
                    [res EXCEPT ![write + 1] =
                        decode_byte_pair(bytes[read + 1], bytes[read + 2])],
                    write + 1, read + 2, overflow_checks)

\* String::from_utf8(res)
from_utf8(res) ==
    IF IsValidUtf8(res) THEN [tag |-> "Ok", value |-> res]
    ELSE [tag |-> "Err", variant |-> "FromUtf8Error", bytes |-> res]

\* pub fn zalgo_decode(encoded: &str) -> Result<String, FromUtf8Error>
\* encoded.len() - 1 is a usize subtraction: on the empty string it panics
\* in a build with overflow checks and wraps to usize::MAX in one without,
\* where vec![0; usize::MAX / 2] then fails to allocate and aborts.
zalgo_decode(encoded, overflow_checks) ==
    IF Len(encoded) = 0
    THEN IF overflow_checks
         THEN [tag |-> "Panic", msg |-> "attempt to subtract with overflow"]
         ELSE [tag |-> "Abort", msg |-> "memory allocation failed"]
    ELSE LET r == DecodeLoop(encoded,
                             [k \in 1..((Len(encoded) - 1) \div 2) |-> 0],
                             0, 1, overflow_checks)
         IN IF r.tag = "Done" THEN from_utf8(r.res) ELSE r

----------------------------------------------------------------------------
(* ZalgoString: a String that zalgo_encode produced.                       *)

\* pub fn new(s: &str) -> Result<Self, Error>:  zalgo_encode(s).map(Self)
ZalgoString_new(s) == zalgo_encode(s)

\* pub fn len(&self) -> usize
ZalgoString_len(zs) == Len(zs)

\* pub fn decoded_len(&self) -> usize:  (self.len() - 1) / 2
decoded_len(zs) == (ZalgoString_len(zs) - 1) \div 2

\* pub fn decoded_is_empty(&self) -> bool
decoded_is_empty(zs) == decoded_len(zs) = 0

\* pub fn as_combining_chars(&self) -> &str:  self.0.split_at(1).1
as_combining_chars(zs) == SubSeq(zs, 2, Len(zs))

\* A variant of push_zalgo_str that appends the whole other string, its
\* leading "E" included.
push_zalgo_str_WithAnchor(zs, zalgo_string) == zs \o zalgo_string

\* pub fn push_zalgo_str(&mut self, zalgo_string: &Self)
push_zalgo_str(zs, zalgo_string) == zs \o as_combining_chars(zalgo_string)

RECURSIVE IntoDecodedLoop(_, _, _, _)
\* for r in (1..bytes.len()).step_by(2) { bytes[w] = ...; w += 1; }
IntoDecodedLoop(bytes, w, r, overflow_checks) ==
    IF r >= Len(bytes) THEN [tag |-> "Done", bytes |-> bytes, w |-> w]
    ELSE IF r + 1 >= Len(bytes) \/ w >= Len(bytes)
    THEN [tag |-> "Panic", msg |-> "index out of bounds"]
    ELSE IF overflow_checks /\ DecodeSum(bytes[r + 1], bytes[r + 2]) > 255
    THEN [tag |-> "Panic", msg |-> "attempt to add with overflow"]
    ELSE IntoDecodedLoop(
             [bytes EXCEPT ![w + 1] = decode_byte_pair(bytes[r + 1], bytes[r + 2])],
             w + 1, r + 2, overflow_checks)

\* A variant of into_decoded_bytes that leaves the buffer at its encoded
\* length instead of truncating it to the bytes written.
into_decoded_bytes_NoTruncate(zs, overflow_checks) ==
    LET r == IntoDecodedLoop(zs, 0, 1, overflow_checks) IN
    IF r.tag = "Done" THEN [tag |-> "Ok", value |-> r.bytes] ELSE r

\* pub fn into_decoded_bytes(self) -> Vec<u8>: decodes in place, then
\* bytes.truncate(w).
into_decoded_bytes(zs, overflow_checks) ==
    LET r == IntoDecodedLoop(zs, 0, 1, overflow_checks) IN
    IF r.tag = "Done" THEN [tag |-> "Ok", value |-> SubSeq(r.bytes, 1, r.w)] ELSE r

\* pub fn into_decoded_string(self) -> String:
\* unsafe { String::from_utf8_unchecked(self.into_decoded_bytes()) }.
\* The set of results the call can have: building a String from bytes that
\* are not UTF-8 is undefined behaviour, so then any outcome is possible.
into_decoded_string(zs, overflow_checks) ==
    LET r == into_decoded_bytes(zs, overflow_checks) IN
    IF r.tag = "Ok" /\ ~IsValidUtf8(r.value)
    THEN { [tag |-> "Ok", value |-> r.value],
           [tag |-> "Panic", msg |-> "invalid UTF-8 in a String"],
           [tag |-> "Abort", msg |-> "invalid UTF-8 in a String"] }
    ELSE { r }

----------------------------------------------------------------------------
(* The inputs a caller passes: every one is a valid &str.                  *)

\* Characters the texts are built from, each as its UTF-8 bytes: 'a', '\n',
\* '\r', DEL, 'E', the two-byte characters U+00EB and U+0321.
Alphabet ==
    { << 97 >>, << 10 >>, << 13 >>, << 127 >>, << 69 >>, << 195, 171 >>, << 204, 161 >> }

RECURSIVE Flatten(_)
\* The bytes of a sequence of characters.
Flatten(chars) == IF chars = << >> THEN << >> ELSE Head(chars) \o Flatten(Tail(chars))

\* All texts of at most n characters of Alphabet.
TextsUpTo(n) == { Flatten(cs) : cs \in UNION { [1..k -> Alphabet] : k \in 0..n } }

\* n copies of the byte 'a'.
Padding(n) == [k \in 1..n |-> 97]

\* Lengths of padding that end just before, at, and one batch after a batch
\* boundary of the encoder.
PadLens == { BATCH_SIZE - 1, BATCH_SIZE, 2 * BATCH_SIZE }

\* Every string of one ASCII byte.
SingleBytes == { << b >> : b \in 0..127 }

\* Strings the documentation and the tests of the crate use:
\* "ab\ncd\u{eb}", "a\nb\nc\r\n", "I \u{2764}\u{fe0f} \u{1f382}",
\* "I\n\u{2764}\u{fe0f}\n\u{1f382}", "Zalgo", "Zalgo\r", "Z\u{e5}lgo",
\* "aw\u{f6}" and the encoding of "Zalgo".
DocInputs ==
    { << 97, 98, 10, 99, 100, 195, 171 >>,
      << 97, 10, 98, 10, 99, 13, 10 >>,
      << 73, 32, 226, 157, 164, 239, 184, 143, 32, 240, 159, 142, 130 >>,
      << 73, 10, 226, 157, 164, 239, 184, 143, 10, 240, 159, 142, 130 >>,
      << 90, 97, 108, 103, 111 >>,
      << 90, 97, 108, 103, 111, 13 >>,
      << 90, 195, 165, 108, 103, 111 >>,
      << 97, 119, 195, 182 >>,
      << 69, 204, 186, 205, 129, 205, 140, 205, 135, 205, 143 >> }

Inputs ==
    TextsUpTo(MaxLen) \cup SingleBytes \cup DocInputs
        \cup { Padding(n) \o t : n \in PadLens, t \in TextsUpTo(MaxTail) }

\* The texts pushed onto a ZalgoString: "", "B" and "\n~".
PushTexts == { << >>, << 66 >>, << 10, 126 >> }

----------------------------------------------------------------------------
(* The state machine: one caller using the library on one input.  Whether  *)
(* the build checks integer overflow (a debug build) or lets it wrap (a    *)
(* release build) is not known to the library: every call may be either.   *)

VARIABLES
    input,            \* the &str the caller starts from
    pc,               \* what the caller has done so far
    enc,              \* the value zalgo_encode / ZalgoString::new returned
    dec,              \* the value zalgo_decode returned
    zs,               \* the caller's ZalgoString (its String buffer)
    pushed,           \* the texts pushed onto zs so far, in order
    out               \* the value into_decoded_string / into_decoded_bytes returned

vars == << input, pc, enc, dec, zs, pushed, out >>

None == [tag |-> "None"]

\* A program that keeps one ZalgoString and changes it in place.
VARIABLES
    zstr,             \* the ZalgoString (its String buffer), NoString before new
    capacity,         \* the capacity of zstr's buffer
    other,            \* a second ZalgoString: a clone of zstr or one built by new
    latest            \* the latest call on zstr: its name, argument, receiver, outcome

zsVars == << zstr, capacity, other, latest >>

\* A program that walks an iterator over the decoded bytes of a ZalgoString.
VARIABLES
    iter_zs,          \* the ZalgoString the iterator borrows
    kind,             \* "DecodedBytes" or "DecodedChars"
    iter,             \* the bytes the inner core::str::Bytes has not yielded yet
    front,            \* the items next() returned, in order
    back,             \* the items next_back() returned, in order
    call              \* the latest call on the iterator and what it returned

iterVars == << iter_zs, kind, iter, front, back, call >>

\* A user of the codec program: wrap a text in Python, then unwrap it.
VARIABLES
    text,             \* the text given to zalgo_wrap_python
    wrapped,          \* what zalgo_wrap_python returned
    unwrapped         \* what the Unwrap mode made of it

wrapVars == << text, wrapped, unwrapped >>

\* One run of the command-line program of src/wrapper.
VARIABLES
    cli,              \* the parsed command line
    files,            \* the file system: the content of each path, or Absent
    stdout,           \* what the run printed
    exit              \* how main returned

cliVars == << cli, files, stdout, exit >>

\* A caller of the first crate of the repository (src/src/lib.rs), next to a
\* caller of the current one on the same input.
VARIABLES
    old_enc,          \* the value the first crate's zalgo_encode returned
    old_dec           \* the value the first crate's zalgo_decode returned

legacyVars == << old_enc, old_dec >>

\* The graphical program of src/codec/src/gui.rs.
VARIABLES
    input_field,      \* ZalgoCodecGui::input_field
    output_field,     \* ZalgoCodecGui::output_field
    notifications,    \* ZalgoCodecGui::notifications, each with the number of its push
    commands,         \* the messages of the Command::perform futures still running
    pushes,           \* how many PushNotification messages update has handled
    handled           \* the latest PushNotification or TimerFinised update handled

guiVars == << input_field, output_field, notifications, commands, pushes, handled >>

allVars == << vars, zsVars, iterVars, wrapVars, cliVars, legacyVars, guiVars >>

\* Where a string is not there (not built yet, or dropped): no byte
\* sequence, so that it differs from every string, the empty one included.
NoString == << -1 >>

\* The variables of a program that is not the one running stay as they are.
ZsIdle == zstr = NoString /\ capacity = 0 /\ other = NoString /\ latest = None

IterIdle ==
    /\ iter_zs = NoString /\ kind = "none" /\ iter = << >>
    /\ front = << >> /\ back = << >> /\ call = None

WrapIdle == text = << >> /\ wrapped = None /\ unwrapped = None

CliIdle == cli = None /\ files = None /\ stdout = << >> /\ exit = None

LegacyIdle == old_enc = None /\ old_dec = None

GuiIdle ==
    /\ input_field = << >> /\ output_field = << >> /\ notifications = << >>
    /\ commands = << >> /\ pushes = 0 /\ handled = None

CodecIdle ==
    /\ input = << >> /\ pc = "idle" /\ enc = None /\ dec = None
    /\ zs = None /\ pushed = << >> /\ out = None

Init ==
    /\ input \in Inputs
    /\ pc = "start"
    /\ enc = None
    /\ dec = None
    /\ zs = None
    /\ pushed = << >>
    /\ out = None
    /\ ZsIdle /\ IterIdle /\ WrapIdle /\ CliIdle /\ LegacyIdle /\ GuiIdle

\* let encoded = zalgo_encode(input)
Encode ==
    /\ pc = "start"
    /\ enc' = zalgo_encode(input)
    /\ pc' = "encoded"
    /\ UNCHANGED << input, dec, zs, pushed, out >>
    /\ UNCHANGED << zsVars, iterVars, wrapVars, cliVars, legacyVars, guiVars >>

\* zalgo_decode(&encoded) on the output of a successful zalgo_encode
DecodeEncoded ==
    /\ pc = "encoded"
    /\ enc.tag = "Ok"
    /\ \E overflow_checks \in BOOLEAN : dec' = zalgo_decode(enc.value, overflow_checks)
    /\ pc' = "decoded"
    /\ UNCHANGED << input, enc, zs, pushed, out >>
    /\ UNCHANGED << zsVars, iterVars, wrapVars, cliVars, legacyVars, guiVars >>

\* zalgo_decode(input): the input is any string, not one zalgo_encode made
DecodeRaw ==
    /\ pc = "start"
    /\ \E overflow_checks \in BOOLEAN : dec' = zalgo_decode(input, overflow_checks)
    /\ pc' = "decoded_raw"
    /\ UNCHANGED << input, enc, zs, pushed, out >>
    /\ UNCHANGED << zsVars, iterVars, wrapVars, cliVars, legacyVars, guiVars >>

\* let zs = ZalgoString::new(input)
New ==
    /\ pc = "start"
    /\ LET r == ZalgoString_new(input) IN
       /\ enc' = r
       /\ IF r.tag = "Ok"
          THEN zs' = r.value /\ pc' = "zs"
          ELSE zs' = zs /\ pc' = "new_failed"
    /\ UNCHANGED << input, dec, pushed, out >>
    /\ UNCHANGED << zsVars, iterVars, wrapVars, cliVars, legacyVars, guiVars >>

\* zs.push_zalgo_str(&ZalgoString::new(b).unwrap()), also zs += &.. and zs + &..
PushZalgoStr ==
    /\ pc = "zs"
    /\ Len(pushed) < MaxPush
    /\ \E b \in PushTexts :
          /\ zs' = push_zalgo_str(zs, ZalgoString_new(b).value)
          /\ pushed' = Append(pushed, b)
    /\ dec' = None
    /\ UNCHANGED << input, pc, enc, out >>
    /\ UNCHANGED << zsVars, iterVars, wrapVars, cliVars, legacyVars, guiVars >>

\* zalgo_decode(zs.as_str())
DecodeZalgoString ==
    /\ pc = "zs"
    /\ dec = None
    /\ \E overflow_checks \in BOOLEAN : dec' = zalgo_decode(zs, overflow_checks)
    /\ UNCHANGED << input, pc, enc, zs, pushed, out >>
    /\ UNCHANGED << zsVars, iterVars, wrapVars, cliVars, legacyVars, guiVars >>

\* zs.into_decoded_string(): consumes zs
IntoDecodedString ==
    /\ pc = "zs"
    /\ \E overflow_checks \in BOOLEAN : out' \in into_decoded_string(zs, overflow_checks)
    /\ zs' = None
    /\ pc' = "consumed_string"
    /\ UNCHANGED << input, enc, dec, pushed >>
    /\ UNCHANGED << zsVars, iterVars, wrapVars, cliVars, legacyVars, guiVars >>

\* zs.into_decoded_bytes(): consumes zs
IntoDecodedBytes ==
    /\ pc = "zs"
    /\ \E overflow_checks \in BOOLEAN : out' = into_decoded_bytes(zs, overflow_checks)
    /\ zs' = None
    /\ pc' = "consumed_bytes"
    /\ UNCHANGED << input, enc, dec, pushed >>
    /\ UNCHANGED << zsVars, iterVars, wrapVars, cliVars, legacyVars, guiVars >>

Next ==
    \/ Encode
    \/ DecodeEncoded
    \/ DecodeRaw
    \/ New
    \/ PushZalgoStr
    \/ DecodeZalgoString
    \/ IntoDecodedString
    \/ IntoDecodedBytes

Spec == Init /\ [][Next]_allVars

----------------------------------------------------------------------------
(* What the claims speak of, stated without the definitions above.         *)

\* The bytes a text may consist of: printable ASCII and the newline.
Allowed == (32..126) \cup { 10 }

IsEncodableText(t) == \A k \in 1..Len(t) : t[k] \in Allowed

\* The 0-indexed offset of the first byte of t that is not allowed.
FirstBadOffset(t) ==
    CHOOSE i \in 0..(Len(t) - 1) :
        /\ t[i + 1] \notin Allowed
        /\ \A k \in 0..(i - 1) : t[k + 1] \in Allowed

\* The character of t that starts at offset i: the byte there and the
\* continuation bytes (0b10xx_xxxx) that follow it.
CharStartingAt(t, i) ==
    LET last == CHOOSE e \in (i + 1)..Len(t) :
                    /\ \A k \in (i + 2)..e : t[k] \in 128..191
                    /\ e = Len(t) \/ t[e + 1] \notin 128..191
    IN SubSeq(t, i + 1, last)

\* The value the byte b is mapped to: b - 32, and 111 for the newline.
MappedValue(b) == IF b = 10 THEN 111 ELSE b - 32

\* The pair (0xCC | ((v>>6)&1), 0x80 | (v&63)), by arithmetic.
ExpectedPair(b) ==
    << 204 + ((MappedValue(b) \div 64) % 2), 128 + (MappedValue(b) % 64) >>

\* The UTF-8 encoding of a code point in U+0080..U+07FF.
Utf8TwoBytes(cp) == << 192 + (cp \div 64), 128 + (cp % 64) >>

\* Number of newline bytes of t before offset i.
NewlinesBefore(t, i) == Cardinality({ k \in 1..i : t[k] = 10 })

\* The column of offset i: i minus the offset of the last newline before
\* i, and i + 1 when there is none.
ColumnOf(t, i) ==
    LET nl == { k \in 0..(i - 1) : t[k + 1] = 10 } IN
    IF nl = { } THEN i + 1
    ELSE i - (CHOOSE k \in nl : \A m \in nl : m <= k)

Ok(v) == [tag |-> "Ok", value |-> v]

----------------------------------------------------------------------------
(* The claims.                                                             *)

\* C1: for every text t whose bytes all lie in [32,126] or are 10 (the
\* empty text included), zalgo_encode(t) succeeds and
\* zalgo_decode(zalgo_encode(t)) succeeds and equals t.
C1_RoundTrip ==
    IsEncodableText(input) =>
        /\ pc \in { "encoded", "decoded" } => enc.tag = "Ok"
        /\ pc = "decoded" => dec = Ok(input)

\* A text longer than one batch, with a newline in it, has been encoded and
\* decoded back.
C1_Witness ==
    /\ pc = "decoded"
    /\ Len(input) > BATCH_SIZE
    /\ \E k \in 1..Len(input) : input[k] = 10
    /\ dec = Ok(input)

\* C2: for every encodable text t, zalgo_encode(t) is the byte 69 followed,
\* for each input byte b in order, by the pair
\* (0xCC | ((v>>6)&1), 0x80 | (v&63)) with v = b - 32, or 111 for a newline;
\* each pair is the UTF-8 encoding of the code point U+0300 + v, which lies
\* in U+0300..U+036F; 'A' gives U+0321 and the newline U+036F.
C2_ByteLayout ==
    (pc = "encoded" /\ IsEncodableText(input)) =>
        /\ enc.tag = "Ok"
        /\ Len(enc.value) = 2 * Len(input) + 1
        /\ enc.value[1] = 69
        /\ \A k \in 1..Len(input) :
              /\ SubSeq(enc.value, 2 * k, 2 * k + 1) = ExpectedPair(input[k])
              /\ SubSeq(enc.value, 2 * k, 2 * k + 1)
                     = Utf8TwoBytes(768 + MappedValue(input[k]))
              /\ 768 + MappedValue(input[k]) \in 768..879
        /\ input = << 65 >> => enc.value = << 69 >> \o Utf8TwoBytes(801)
        /\ input = << 10 >> => enc.value = << 69 >> \o Utf8TwoBytes(879)

\* "A" has been encoded to 'E' followed by U+0321.
C2_Witness ==
    /\ pc = "encoded"
    /\ input = << 65 >>
    /\ enc = Ok(<< 69, 204, 161 >>)

\* C3: for every encodable text t of n bytes, zalgo_encode(t) has exactly
\* 2n+1 bytes, and ZalgoString::new(t) reports len() = 2n+1 and
\* decoded_len() = (len()-1)/2 = n, with decoded_is_empty() true exactly
\* when n = 0.
C3_Lengths ==
    /\ (pc = "encoded" /\ IsEncodableText(input)) =>
          enc.tag = "Ok" /\ Len(enc.value) = 2 * Len(input) + 1
    /\ (pc = "zs" /\ pushed = << >>) =>
          /\ ZalgoString_len(zs) = 2 * Len(input) + 1
          /\ decoded_len(zs) = (ZalgoString_len(zs) - 1) \div 2
          /\ decoded_len(zs) = Len(input)
          /\ decoded_is_empty(zs) <=> (Len(input) = 0)

\* A ZalgoString has been made of a text one byte longer than a batch.
C3_Witness ==
    /\ pc = "zs"
    /\ pushed = << >>
    /\ Len(input) = BATCH_SIZE + 1
    /\ ZalgoString_len(zs) = 2 * BATCH_SIZE + 3
    /\ ~decoded_is_empty(zs)

\* C4: zalgo_encode(t) returns Ok exactly when every byte of t is in
\* [32,126] or is 10; otherwise it returns an error value for the first
\* disallowed byte, with no encoded output at all; in particular for tab,
\* carriage return, NUL, DEL and a non-ASCII character.
C4_OkIffEncodable ==
    pc \in { "encoded", "new_failed", "zs" } =>
        /\ (enc.tag = "Ok") <=> IsEncodableText(input)
        /\ ~IsEncodableText(input) =>
              /\ enc.tag = "Err"
              /\ "value" \notin DOMAIN enc
              /\ enc.char[1] = input[FirstBadOffset(input) + 1]
        /\ input \in { << 9 >>, << 13 >>, << 0 >>, << 127 >>, << 195, 171 >> } =>
              enc.tag = "Err"

\* A text with an encodable byte, then a carriage return, then DEL has been
\* rejected for the carriage return.
C4_Witness ==
    /\ pc = "encoded"
    /\ input = << 97, 13, 127 >>
    /\ enc.tag = "Err"
    /\ enc.char = << 13 >>

C6_LineColumn ==
    (pc \in { "encoded", "new_failed" } /\ ~IsEncodableText(input)) =>
        LET i == FirstBadOffset(input) IN
        /\ enc.tag = "Err"
        /\ enc.line = 1 + NewlinesBefore(input, i)
        /\ enc.column = ColumnOf(input, i)
        /\ (Len(input) >= 6 /\ SubSeq(input, 1, 6) = << 97, 10, 98, 10, 99, 13 >>) =>
              enc.line = 3
        /\ (i > 0 /\ input[i] = 10 /\ input[i + 1] >= 128) => enc.column = 1

\* "a\nb\nc\r\n" has been rejected on line 3, column 2.
C6_Witness ==
    /\ pc = "encoded"
    /\ input = << 97, 10, 98, 10, 99, 13, 10 >>
    /\ enc.tag = "Err"
    /\ enc.line = 3
    /\ enc.column = 2

\* C7: zalgo_decode applied to the empty string returns the empty-input
\* DecodeError (DecodeErrorKind::EmptyInput) as a value, instead of
\* attempting to decode or faulting.
C7_EmptyInputError ==
    (pc = "decoded_raw" /\ input = << >>) =>
        dec = [tag |-> "Err", variant |-> "EmptyInput"]

\* C8: for every string s whatsoever, zalgo_decode(s) finishes with Ok or
\* with an error value: no index out of bounds, no overflow or underflow.
C8_DecodeNeverFaults ==
    pc \in { "decoded_raw", "decoded" } => dec.tag \in { "Ok", "Err" }

\* C9: for every encodable text t, ZalgoString::new(t).into_decoded_string()
\* equals t and into_decoded_bytes() equals the bytes of t, the same result
\* as zalgo_decode on that buffer.
C9_InPlaceDecode ==
    (pc \in { "consumed_string", "consumed_bytes" } /\ pushed = << >>) =>
        /\ out = Ok(input)
        /\ dec # None => out = dec

\* A ZalgoString of a text longer than a batch has been decoded by
\* zalgo_decode and then in place, with the same result.
C9_Witness ==
    /\ pc = "consumed_string"
    /\ pushed = << >>
    /\ Len(input) > BATCH_SIZE
    /\ dec = Ok(input)
    /\ out = dec

\* C10: for all encodable texts A and B, after zs1 = new(A) and
\* zs1.push_zalgo_str(&new(B)), zs1.into_decoded_string() equals A followed
\* by B, also across repeated appends (A+B+B+B after three).
C10_PushThenDecode ==
    pc \in { "consumed_string", "consumed_bytes" } =>
        out = Ok(input \o Flatten(pushed))

\* "\n~" has been appended three times to a non-empty text, which then
\* decoded to the text followed by "\n~\n~\n~".
C10_Witness ==
    /\ pc = "consumed_string"
    /\ Len(input) > 0
    /\ pushed = << << 10, 126 >>, << 10, 126 >>, << 10, 126 >> >>
    /\ out = Ok(input \o << 10, 126, 10, 126, 10, 126 >>)

----------------------------------------------------------------------------
(* ZalgoString: the operations that change one in place.                   *)

\* The texts the ZalgoStrings of this program are built from: "", "B",
\* "\n~" and, to have new fail, "\r".
ZsTexts == PushTexts \cup { << 13 >> }

\* The longest text, in decoded bytes, that the program grows zstr to.
MaxDecoded == 3

\* The largest `additional` the program passes to reserve / reserve_exact.
MaxReserve == 2

\* impl Clone (derived): a copy of the buffer.
clone(this) == this

\* String::truncate(new_len): no effect when new_len > len, a panic when
\* new_len is not on a char boundary.
String_truncate(string, new_len) ==
    IF new_len > Len(string) THEN [tag |-> "Ok", value |-> string]
    ELSE IF ~IsCharBoundary(string, new_len)
    THEN [tag |-> "Panic", msg |-> "new_len does not lie on a char boundary"]
    ELSE [tag |-> "Ok", value |-> SubSeq(string, 1, new_len)]

\* A variant of truncate without the assert_eq! on the new length.
truncate_NoAssert(this, new_len) ==
    IF new_len <= ZalgoString_len(this)
    THEN String_truncate(this, new_len)
    ELSE [tag |-> "Ok", value |-> this]

\* pub fn truncate(&mut self, new_len: usize):
\*   if new_len <= self.len() {
\*       assert_eq!(new_len % 2, 1, "the new length must be odd");
\*       self.0.truncate(new_len) }
truncate(this, new_len) ==
    IF new_len <= ZalgoString_len(this)
    THEN IF new_len % 2 # 1
         THEN [tag |-> "Panic", msg |-> "the new length must be odd"]
         ELSE String_truncate(this, new_len)
    ELSE [tag |-> "Ok", value |-> this]

\* A variant of clear that truncates to length 0.
clear_ToZero(this) == truncate(this, 0)

\* pub fn clear(&mut self):  self.truncate(1)
clear(this) == truncate(this, 1)

\* The capacity of a String of length len and capacity cap after
\* String::reserve(additional): unchanged when sufficient, else grown to the
\* larger of twice the capacity and what is required (8 at least).
reserve(cap, len, additional) ==
    IF cap - len >= additional THEN cap
    ELSE LET required == len + additional
             doubled == IF 2 * cap > required THEN 2 * cap ELSE required
         IN IF doubled < 8 THEN 8 ELSE doubled

\* The same after String::reserve_exact(additional).
reserve_exact(cap, len, additional) ==
    IF cap - len >= additional THEN cap ELSE len + additional

InitZs ==
    /\ ZsIdle
    /\ CodecIdle /\ IterIdle /\ WrapIdle /\ CliIdle /\ LegacyIdle /\ GuiIdle

\* let mut zstr = ZalgoString::new(s)?
ZsNew ==
    /\ zstr = NoString
    /\ \E s \in ZsTexts :
          LET r == ZalgoString_new(s) IN
          /\ zstr' = IF r.tag = "Ok" THEN r.value ELSE NoString
          /\ capacity' = IF r.tag = "Ok" THEN Len(r.value) ELSE 0
          /\ latest' = [op |-> "new", arg |-> s, before |-> << >>, result |-> r.tag]
    /\ UNCHANGED other
    /\ UNCHANGED << vars, iterVars, wrapVars, cliVars, legacyVars, guiVars >>

\* let other = ZalgoString::new(b)?
ZsNewOther ==
    /\ zstr # NoString
    /\ \E b \in PushTexts : other' = ZalgoString_new(b).value
    /\ UNCHANGED << zstr, capacity, latest >>
    /\ UNCHANGED << vars, iterVars, wrapVars, cliVars, legacyVars, guiVars >>

\* let other = zstr.clone()
ZsClone ==
    /\ zstr # NoString
    /\ other' = clone(zstr)
    /\ latest' = [op |-> "clone", arg |-> 0, before |-> zstr, result |-> "Ok"]
    /\ UNCHANGED << zstr, capacity >>
    /\ UNCHANGED << vars, iterVars, wrapVars, cliVars, legacyVars, guiVars >>

\* zstr.push_zalgo_str(&other), zstr += &other, zstr = zstr + &other
ZsPushZalgoStr ==
    /\ zstr # NoString
    /\ other # NoString
    /\ decoded_len(zstr) + decoded_len(other) <= MaxDecoded
    /\ zstr' = push_zalgo_str(zstr, other)
    /\ capacity' = reserve(capacity, Len(zstr), Len(as_combining_chars(other)))
    /\ latest' = [op |-> "push_zalgo_str", arg |-> other, before |-> zstr, result |-> "Ok"]
    /\ UNCHANGED other
    /\ UNCHANGED << vars, iterVars, wrapVars, cliVars, legacyVars, guiVars >>

\* zstr.truncate(new_len); a panic of the call leaves zstr as it was
ZsTruncate ==
    /\ zstr # NoString
    /\ \E new_len \in 0..(Len(zstr) + 2) :
          LET r == truncate(zstr, new_len) IN
          /\ zstr' = IF r.tag = "Ok" THEN r.value ELSE zstr
          /\ latest' = [op |-> "truncate", arg |-> new_len, before |-> zstr, result |-> r.tag]
    /\ UNCHANGED << capacity, other >>
    /\ UNCHANGED << vars, iterVars, wrapVars, cliVars, legacyVars, guiVars >>

\* zstr.clear()
ZsClear ==
    /\ zstr # NoString
    /\ LET r == clear(zstr) IN
          /\ zstr' = IF r.tag = "Ok" THEN r.value ELSE zstr
          /\ latest' = [op |-> "clear", arg |-> 0, before |-> zstr, result |-> r.tag]
    /\ UNCHANGED << capacity, other >>
    /\ UNCHANGED << vars, iterVars, wrapVars, cliVars, legacyVars, guiVars >>

\* zstr.reserve(additional)
ZsReserve ==
    /\ zstr # NoString
    /\ \E additional \in 0..MaxReserve :
          /\ capacity' = reserve(capacity, Len(zstr), additional)
          /\ latest' = [op |-> "reserve", arg |-> additional, before |-> zstr, result |-> "Ok"]
    /\ UNCHANGED << zstr, other >>
    /\ UNCHANGED << vars, iterVars, wrapVars, cliVars, legacyVars, guiVars >>

\* zstr.reserve_exact(additional)
ZsReserveExact ==
    /\ zstr # NoString
    /\ \E additional \in 0..MaxReserve :
          /\ capacity' = reserve_exact(capacity, Len(zstr), additional)
          /\ latest' = [op |-> "reserve_exact", arg |-> additional, before |-> zstr, result |-> "Ok"]
    /\ UNCHANGED << zstr, other >>
    /\ UNCHANGED << vars, iterVars, wrapVars, cliVars, legacyVars, guiVars >>

NextZs ==
    \/ ZsNew
    \/ ZsNewOther
    \/ ZsClone
    \/ ZsPushZalgoStr
    \/ ZsTruncate
    \/ ZsClear
    \/ ZsReserve
    \/ ZsReserveExact

SpecZs == InitZs /\ [][NextZs]_allVars

----------------------------------------------------------------------------
(* Claims about the operations that change a ZalgoString.                  *)

\* A buffer is well formed: it starts with "E", its length is odd, and
\* every pair after the "E" decodes to printable ASCII or a newline.
WellFormed(b) ==
    /\ Len(b) >= 1
    /\ Len(b) % 2 = 1
    /\ b[1] = 69
    /\ \A k \in 1..((Len(b) - 1) \div 2) :
          decode_byte_pair(b[2 * k], b[2 * k + 1]) \in Allowed

\* The text a well-formed buffer stands for: the allowed byte whose pair
\* is at each position.
TextOf(b) ==
    [k \in 1..((Len(b) - 1) \div 2) |->
        CHOOSE c \in Allowed : ExpectedPair(c) = << b[2 * k], b[2 * k + 1] >>]

\* C11: after any sequence of new, clone, push_zalgo_str, truncate (also
\* when it panics), clear, reserve and reserve_exact, every ZalgoString
\* starts with byte 69, has odd length >= 1 and holds only pairs that
\* decode_byte_pair maps into [32,126] or to 10; decoding it succeeds and
\* gives ASCII text.
C11_AlwaysWellFormed ==
    \A b \in { zstr, other } \ { NoString } :
        /\ WellFormed(b)
        /\ \A overflow_checks \in BOOLEAN :
              LET d == zalgo_decode(b, overflow_checks) IN
              /\ d.tag = "Ok"
              /\ \A k \in 1..Len(d.value) : d.value[k] \in 0..127

\* A string with a second ZalgoString beside it was grown beyond its first
\* capacity and then cut by a truncate to a shorter string of some pairs.
C11_Witness ==
    /\ zstr # NoString /\ other # NoString
    /\ latest.op = "truncate" /\ latest.result = "Ok"
    /\ 1 < Len(zstr) /\ Len(zstr) < Len(latest.before)
    /\ capacity > Len(latest.before)

C14_TruncateAndClear ==
    /\ (latest # None /\ latest.op = "truncate" /\ latest.arg > Len(latest.before))
          => (latest.result = "Ok" /\ zstr = latest.before)
    /\ (latest # None /\ latest.op = "truncate"
            /\ latest.arg % 2 = 1 /\ latest.arg <= Len(latest.before))
          => /\ latest.result = "Ok"
             /\ zstr = SubSeq(latest.before, 1, latest.arg)
             /\ \A overflow_checks \in BOOLEAN :
                   zalgo_decode(zstr, overflow_checks)
                       = Ok(SubSeq(TextOf(latest.before), 1, (latest.arg - 1) \div 2))
    /\ (latest # None /\ latest.op = "clear")
          => /\ latest.result = "Ok"
             /\ zstr = << 69 >>
             /\ ZalgoString_len(zstr) = 1
             /\ decoded_len(zstr) = 0
             /\ decoded_is_empty(zstr)
             /\ \A overflow_checks \in BOOLEAN :
                   into_decoded_bytes(zstr, overflow_checks) = Ok(<< >>)

\* A truncate to an odd length cut a text of three bytes down to one.
C14_Witness ==
    /\ latest # None /\ latest.op = "truncate"
    /\ Len(latest.before) = 7 /\ latest.arg = 3
    /\ zstr = SubSeq(latest.before, 1, 3)


----------------------------------------------------------------------------
(* ZalgoString with the serde feature: a program that gets its ZalgoString *)
(* from new or from serialized data, and decodes it.                       *)

\* #[derive(serde::Deserialize)] on the newtype struct ZalgoString(String):
\* the String in the data is deserialized and wrapped, as it is.
deserialize(string) == string

\* let zstr: ZalgoString = deserialize(data)? where the data holds a string
ZsDeserialize ==
    /\ zstr = NoString
    /\ \E string \in Inputs :
          /\ zstr' = deserialize(string)
          /\ capacity' = Len(string)
          /\ latest' = [op |-> "deserialize", arg |-> string, before |-> << >>, result |-> "Ok"]
    /\ UNCHANGED other
    /\ UNCHANGED << vars, iterVars, wrapVars, cliVars, legacyVars, guiVars >>

\* zstr.into_decoded_string(): consumes zstr
ZsIntoDecodedString ==
    /\ zstr # NoString
    /\ \E overflow_checks \in BOOLEAN :
          \E r \in into_decoded_string(zstr, overflow_checks) :
              latest' = [op |-> "into_decoded_string", arg |-> 0, before |-> zstr,
                         result |-> r.tag]
    /\ zstr' = NoString
    /\ capacity' = 0
    /\ UNCHANGED other
    /\ UNCHANGED << vars, iterVars, wrapVars, cliVars, legacyVars, guiVars >>

NextSerde ==
    \/ ZsNew
    \/ ZsDeserialize
    \/ ZsIntoDecodedString

SpecSerde == InitZs /\ [][NextSerde]_allVars

\* A buffer is the encoding of some text: "E", then the pair of an allowed
\* byte at each position.
IsEncodingOfText(b) ==
    /\ Len(b) >= 1
    /\ Len(b) % 2 = 1
    /\ b[1] = 69
    /\ \A k \in 1..((Len(b) - 1) \div 2) :
          \E c \in Allowed : ExpectedPair(c) = << b[2 * k], b[2 * k + 1] >>

\* C12: a ZalgoString holds only what zalgo_encode produced (or what
\* combining and shortening such strings gives); no operation, the derived
\* Deserialize included, makes one that holds an arbitrary string.
C12_OnlyFromEncode ==
    /\ zstr # NoString => IsEncodingOfText(zstr)
    /\ (latest # None /\ latest.op = "into_decoded_string") => latest.result = "Ok"

----------------------------------------------------------------------------
(* The iterators DecodedBytes and DecodedChars.  An iterator is the inner  *)
(* core::str::Bytes it wraps: the bytes not yielded yet.  An Option is a    *)
(* sequence of no or one item.                                              *)

\* core::str::Bytes::next
Bytes_next(bytes) ==
    IF bytes = << >> THEN [item |-> << >>, rest |-> bytes]
    ELSE [item |-> << Head(bytes) >>, rest |-> Tail(bytes)]

\* core::str::Bytes::next_back
Bytes_next_back(bytes) ==
    IF bytes = << >> THEN [item |-> << >>, rest |-> bytes]
    ELSE [item |-> << bytes[Len(bytes)] >>, rest |-> SubSeq(bytes, 1, Len(bytes) - 1)]

\* DecodedBytes::new(zs):  Self(zs.as_combining_chars().bytes())
DecodedBytes_new(this) == as_combining_chars(this)

\* A variant of next that decodes the next pair but takes only its first
\* byte out of the inner iterator.
DecodedBytes_next_OneByte(bytes) ==
    LET odd == Bytes_next(bytes)
        even == Bytes_next(odd.rest)
    IN [item |-> IF odd.item # << >> /\ even.item # << >>
                 THEN << decode_byte_pair(odd.item[1], even.item[1]) >>
                 ELSE << >>,
        rest |-> odd.rest]

\* fn next(&mut self) -> Option<u8>:
\*   self.0.next().zip(self.0.next()).map(|(odd, even)| decode_byte_pair(odd, even))
DecodedBytes_next(bytes) ==
    LET odd == Bytes_next(bytes)
        even == Bytes_next(odd.rest)
    IN [item |-> IF odd.item # << >> /\ even.item # << >>
                 THEN << decode_byte_pair(odd.item[1], even.item[1]) >>
                 ELSE << >>,
        rest |-> even.rest]

\* A variant of next_back that passes the two bytes to decode_byte_pair in
\* the order it took them.
DecodedBytes_next_back_Swapped(bytes) ==
    LET even == Bytes_next_back(bytes)
        odd == Bytes_next_back(even.rest)
    IN [item |-> IF even.item # << >> /\ odd.item # << >>
                 THEN << decode_byte_pair(even.item[1], odd.item[1]) >>
                 ELSE << >>,
        rest |-> odd.rest]

\* fn next_back(&mut self) -> Option<u8>:
\*   self.0.next_back().zip(self.0.next_back())
\*       .map(|(even, odd)| decode_byte_pair(odd, even))
DecodedBytes_next_back(bytes) ==
    LET even == Bytes_next_back(bytes)
        odd == Bytes_next_back(even.rest)
    IN [item |-> IF even.item # << >> /\ odd.item # << >>
                 THEN << decode_byte_pair(odd.item[1], even.item[1]) >>
                 ELSE << >>,
        rest |-> odd.rest]

\* A variant of size_hint that reports the bytes left, not the pairs.
size_hint_NoHalving(bytes) ==
    LET left == Len(bytes) IN << left, << left >> >>

\* fn size_hint(&self) -> (usize, Option<usize>):
\*   let left = self.0.size_hint().0 / 2; (left, Some(left))
size_hint(bytes) ==
    LET left == Len(bytes) \div 2 IN << left, << left >> >>

\* char::from(u8): the char whose code point is the byte.
char_from(byte) == byte

\* The item of a DecodedChars for the item of the DecodedBytes it wraps:
\* .map(char::from)
map_char_from(r) ==
    [item |-> IF r.item = << >> THEN << >> ELSE << char_from(r.item[1]) >>,
     rest |-> r.rest]

\* DecodedChars::next:  self.0.next().map(char::from)
DecodedChars_next(bytes) == map_char_from(DecodedBytes_next(bytes))

\* DecodedChars::next_back:  self.0.next_back().map(char::from)
DecodedChars_next_back(bytes) == map_char_from(DecodedBytes_next_back(bytes))

\* The encodable texts of at most MaxLen characters, of one byte, and
\* "Zalgo".
IterTexts ==
    { t \in TextsUpTo(MaxLen) \cup SingleBytes \cup DocInputs :
        ZalgoString_new(t).tag = "Ok" }

\* let zs = ZalgoString::new(t)?, and perhaps zs.push_zalgo_str(&new(b)?)
InitIter ==
    /\ \E t \in IterTexts, b \in PushTexts :
          iter_zs = push_zalgo_str(ZalgoString_new(t).value, ZalgoString_new(b).value)
    /\ kind = "none"
    /\ iter = << >>
    /\ front = << >>
    /\ back = << >>
    /\ call = None
    /\ CodecIdle /\ ZsIdle /\ WrapIdle /\ CliIdle /\ LegacyIdle /\ GuiIdle

\* let mut iter = zs.decoded_bytes()
IterDecodedBytes ==
    /\ kind = "none"
    /\ kind' = "DecodedBytes"
    /\ iter' = DecodedBytes_new(iter_zs)
    /\ call' = [op |-> "new", result |-> << >>, none_before |-> FALSE,
                hint_before |-> size_hint(DecodedBytes_new(iter_zs))]
    /\ UNCHANGED << iter_zs, front, back >>
    /\ UNCHANGED << vars, zsVars, wrapVars, cliVars, legacyVars, guiVars >>

\* let mut iter = zs.decoded_chars():  DecodedChars(self.decoded_bytes())
IterDecodedChars ==
    /\ kind = "none"
    /\ kind' = "DecodedChars"
    /\ iter' = DecodedBytes_new(iter_zs)
    /\ call' = [op |-> "new", result |-> << >>, none_before |-> FALSE,
                hint_before |-> size_hint(DecodedBytes_new(iter_zs))]
    /\ UNCHANGED << iter_zs, front, back >>
    /\ UNCHANGED << vars, zsVars, wrapVars, cliVars, legacyVars, guiVars >>

\* Whether a call of next or next_back has returned None so far.
NoneSeen ==
    /\ call.op # "new"
    /\ call.none_before \/ (call.op \in { "next", "next_back" } /\ call.result = << >>)

\* iter.next()
IterNext ==
    /\ kind # "none"
    /\ LET r == IF kind = "DecodedBytes" THEN DecodedBytes_next(iter)
                ELSE DecodedChars_next(iter)
       IN /\ iter' = r.rest
          /\ front' = front \o r.item
          /\ call' = [op |-> "next", result |-> r.item, none_before |-> NoneSeen,
                      hint_before |-> size_hint(iter)]
    /\ UNCHANGED << iter_zs, kind, back >>
    /\ UNCHANGED << vars, zsVars, wrapVars, cliVars, legacyVars, guiVars >>

\* iter.next_back()
IterNextBack ==
    /\ kind # "none"
    /\ LET r == IF kind = "DecodedBytes" THEN DecodedBytes_next_back(iter)
                ELSE DecodedChars_next_back(iter)
       IN /\ iter' = r.rest
          /\ back' = back \o r.item
          /\ call' = [op |-> "next_back", result |-> r.item, none_before |-> NoneSeen,
                      hint_before |-> size_hint(iter)]
    /\ UNCHANGED << iter_zs, kind, front >>
    /\ UNCHANGED << vars, zsVars, wrapVars, cliVars, legacyVars, guiVars >>

NextIter ==
    \/ IterDecodedBytes
    \/ IterDecodedChars
    \/ IterNext
    \/ IterNextBack

SpecIter == InitIter /\ [][NextIter]_allVars

----------------------------------------------------------------------------
(* Claims about the iterators.                                             *)

\* A sequence back to front.
Reverse(q) == [k \in 1..Len(q) |-> q[Len(q) + 1 - k]]

RECURSIVE StringOfChars(_)
\* The String that chars collect into: the UTF-8 bytes of each code point
\* (up to U+07FF).
StringOfChars(chars) ==
    IF chars = << >> THEN << >>
    ELSE (IF Head(chars) < 128 THEN << Head(chars) >> ELSE Utf8TwoBytes(Head(chars)))
             \o StringOfChars(Tail(chars))

\* What the items of the iterator in use collect into: a Vec<u8> of the
\* bytes, or a String of the chars.
Collected(items) ==
    IF kind = "DecodedChars" THEN StringOfChars(items) ELSE items

\* The text that iter_zs encodes.
IterText == TextOf(iter_zs)

\* C15: the items collected by next() alone are the reverse of the items
\* collected from a fresh iterator by next_back() alone, and both are the
\* decoded text of the ZalgoString.
C15_ForwardIsReverseOfBackward ==
    /\ (kind # "none" /\ back = << >> /\ call.op = "next" /\ call.result = << >>)
          => /\ Collected(front) = IterText
             /\ \A overflow_checks \in BOOLEAN :
                   Ok(Collected(front)) = into_decoded_bytes(iter_zs, overflow_checks)
    /\ (kind # "none" /\ front = << >> /\ call.op = "next_back" /\ call.result = << >>)
          => /\ Collected(Reverse(back)) = IterText
             /\ \A overflow_checks \in BOOLEAN :
                   Ok(Collected(Reverse(back))) = into_decoded_bytes(iter_zs, overflow_checks)

\* next_back() alone has walked "Zalgo" and collected "oglaZ".
C15_Witness ==
    /\ kind = "DecodedChars" /\ front = << >>
    /\ call.op = "next_back" /\ call.result = << >>
    /\ back = << 111, 103, 108, 97, 90 >>

RECURSIVE RemainingByNext(_)
\* How many items repeated calls of next() still yield.
RemainingByNext(bytes) ==
    LET r == DecodedBytes_next(bytes) IN
    IF r.item = << >> THEN 0 ELSE 1 + RemainingByNext(r.rest)

RECURSIVE RemainingByNextBack(_)
\* How many items repeated calls of next_back() still yield.
RemainingByNextBack(bytes) ==
    LET r == DecodedBytes_next_back(bytes) IN
    IF r.item = << >> THEN 0 ELSE 1 + RemainingByNextBack(r.rest)

\* C16: at every point size_hint() is (r, Some(r)) with r the number of
\* items still to come; r starts at decoded_len(), drops by one with every
\* item yielded, and after a call has returned None every later call of
\* next() or next_back() returns None.
C16_ExactSizeAndFused ==
    kind # "none" =>
        LET hint == size_hint(iter) IN
        /\ hint[2] = << hint[1] >>
        /\ hint[1] = RemainingByNext(iter)
        /\ hint[1] = RemainingByNextBack(iter)
        /\ call.op = "new" => hint[1] = decoded_len(iter_zs)
        /\ hint[1] = decoded_len(iter_zs) - Len(front) - Len(back)
        /\ call.op # "new" => hint[1] = call.hint_before[1] - Len(call.result)
        /\ (call.op # "new" /\ call.none_before) => call.result = << >>

\* Items were taken from both ends, a call returned None, and a later call
\* returned None again.
C16_Witness ==
    /\ kind # "none" /\ call.op # "new"
    /\ call.none_before /\ call.result = << >>
    /\ Len(front) >= 1 /\ Len(back) >= 1
    /\ size_hint(iter) = << 0, << 0 >> >>

\* C20: for every interleaving of next() and next_back() on one iterator
\* over a ZalgoString of text t (n bytes): the i-th item from next() is
\* t[i-1], the j-th item from next_back() is t[n-j], n calls succeed in
\* all, no byte is yielded twice or skipped, and the encoded bytes not yet
\* consumed are an even number.
C20_Interleaving ==
    kind # "none" =>
        LET n == Len(IterText) IN
        /\ \A i \in 1..Len(front) : Collected(<< front[i] >>) = << IterText[i] >>
        /\ \A j \in 1..Len(back) : Collected(<< back[j] >>) = << IterText[n - j + 1] >>
        /\ Len(front) + Len(back) <= n
        /\ NoneSeen => Len(front) + Len(back) = n
        /\ (call.op # "new" /\ call.result = << >>) => iter = << >>
        /\ Len(iter) % 2 = 0
        /\ iter = SubSeq(iter_zs, 2 + 2 * Len(front), Len(iter_zs) - 2 * Len(back))

\* "Zalgo": two items taken from the front, three from the back, calls
\* interleaved, then None.
C20_Witness ==
    /\ kind = "DecodedBytes"
    /\ front = << 90, 97 >>
    /\ back = << 111, 103, 108 >>
    /\ call.op = "next" /\ call.result = << >>

----------------------------------------------------------------------------
(* The Python wrapper and the Unwrap mode of the codec program.            *)

\* The text of the format string before {encoded_string}:  b='
WrapperPrefix == << 98, 61, 39 >>

\* The text of the format string after {encoded_string}:
\* '.encode();exec(''.join(chr(((h<<6&64|c&63)+22)%133+10)for h,c in zip(b[1::2],b[2::2])))
WrapperSuffix ==
    << 39, 46, 101, 110, 99, 111, 100, 101, 40, 41, 59, 101, 120, 101, 99, 40,
       39, 39, 46, 106, 111, 105, 110, 40, 99, 104, 114, 40, 40, 40, 104, 60,
       60, 54, 38, 54, 52, 124, 99, 38, 54, 51, 41, 43, 50, 50, 41, 37,
       49, 51, 51, 43, 49, 48, 41, 102, 111, 114, 32, 104, 44, 99, 32, 105,
       110, 32, 122, 105, 112, 40, 98, 91, 49, 58, 58, 50, 93, 44, 98, 91,
       50, 58, 58, 50, 93, 41, 41, 41 >>

\* A variant of zalgo_wrap_python whose template lacks the closing quote.
zalgo_wrap_python_NoClosingQuote(python) ==
    LET encoded_string == zalgo_encode(python) IN
    IF encoded_string.tag # "Ok" THEN encoded_string
    ELSE [tag |-> "Ok",
          value |-> WrapperPrefix \o encoded_string.value \o Tail(WrapperSuffix)]

\* pub fn zalgo_wrap_python(python: &str) -> Result<String, Error>:
\*   let encoded_string = zalgo_encode(python)?;
\*   Ok(format!("b='{encoded_string}'.encode();exec(...)"))
zalgo_wrap_python(python) ==
    LET encoded_string == zalgo_encode(python) IN
    IF encoded_string.tag # "Ok" THEN encoded_string
    ELSE [tag |-> "Ok",
          value |-> WrapperPrefix \o encoded_string.value \o WrapperSuffix]

\* Where the characters of a string start: the bytes that are not
\* continuation bytes.
CharStarts(string) == { i \in 1..Len(string) : ~IsContinuation(string[i]) }

\* What core::str::Chars still holds after n calls of next(): the string
\* from its (n+1)-th character on.
Chars_after_next(string, n) ==
    LET starts == CharStarts(string) IN
    IF Cardinality(starts) <= n THEN << >>
    ELSE SubSeq(string,
                CHOOSE i \in starts : Cardinality({ m \in starts : m < i }) = n,
                Len(string))

\* What core::str::Chars still holds after n calls of next_back(): the
\* string up to its n-th character from the end.
Chars_after_next_back(string, n) ==
    LET starts == CharStarts(string) IN
    IF n = 0 THEN string
    ELSE IF Cardinality(starts) <= n THEN << >>
    ELSE SubSeq(string, 1,
                (CHOOSE i \in starts : Cardinality({ m \in starts : m > i }) = n - 1) - 1)

\* A variant of unwrap that drops one character more at the end.
unwrap_OneMore(contents, overflow_checks) ==
    zalgo_decode(Chars_after_next_back(Chars_after_next(contents, 3), 89), overflow_checks)

\* Mode::Unwrap and GuiButton::Unwrap: drop 3 chars at the front and 88 at
\* the back, collect the rest and zalgo_decode it.
unwrap(contents, overflow_checks) ==
    zalgo_decode(Chars_after_next_back(Chars_after_next(contents, 3), 88), overflow_checks)

InitWrap ==
    /\ text \in Inputs
    /\ wrapped = None
    /\ unwrapped = None
    /\ CodecIdle /\ ZsIdle /\ IterIdle /\ CliIdle /\ LegacyIdle /\ GuiIdle

\* let wrapped = zalgo_wrap_python(&text)
Wrap ==
    /\ wrapped = None
    /\ wrapped' = zalgo_wrap_python(text)
    /\ UNCHANGED << text, unwrapped >>
    /\ UNCHANGED << vars, zsVars, iterVars, cliVars, legacyVars, guiVars >>

\* Unwrap, given what Wrap returned
Unwrap ==
    /\ wrapped # None
    /\ wrapped.tag = "Ok"
    /\ unwrapped = None
    /\ \E overflow_checks \in BOOLEAN :
          unwrapped' = unwrap(wrapped.value, overflow_checks)
    /\ UNCHANGED << text, wrapped >>
    /\ UNCHANGED << vars, zsVars, iterVars, cliVars, legacyVars, guiVars >>

NextWrap ==
    \/ Wrap
    \/ Unwrap

SpecWrap == InitWrap /\ [][NextWrap]_allVars

----------------------------------------------------------------------------
(* Claims about the wrapper.                                               *)

\* The suffix as the claim spells it, character by character:
\* '.encode();exec(''.join(chr(((h<<6&64|c&63)+22)%133+10)for h,c in zip(b[1::2],b[2::2])))
ClaimedSuffix ==
    << 39, 46, 101, 110, 99, 111, 100, 101, 40, 41, 59, 101, 120, 101, 99, 40,
       39, 39, 46, 106, 111, 105, 110, 40, 99, 104, 114, 40, 40, 40, 104, 60,
       60, 54, 38, 54, 52, 124, 99, 38, 54, 51, 41, 43, 50, 50, 41, 37,
       49, 51, 51, 43, 49, 48, 41, 102, 111, 114, 32, 104, 44, 99, 32, 105,
       110, 32, 122, 105, 112, 40, 98, 91, 49, 58, 58, 50, 93, 44, 98, 91,
       50, 58, 58, 50, 93, 41, 41, 41 >>

\* C17: for an encodable text s, zalgo_wrap_python(s) is the characters
\* b=' then zalgo_encode(s) then the fixed suffix; for any other s it is
\* the error zalgo_encode(s) returns.
C17_WrapperTemplate ==
    wrapped # None =>
        IF IsEncodableText(text)
        THEN /\ zalgo_encode(text).tag = "Ok"
             /\ wrapped = Ok(<< 98, 61, 39 >> \o zalgo_encode(text).value \o ClaimedSuffix)
        ELSE /\ wrapped.tag = "Err"
             /\ wrapped = zalgo_encode(text)

\* A text of two lines was wrapped.
C17_Witness ==
    /\ wrapped # None /\ wrapped.tag = "Ok"
    /\ text = << 97, 10, 97 >>
    /\ Len(wrapped.value) = 3 + 7 + 88

\* C18: Unwrap (drop the first 3 and the last 88 characters, zalgo_decode
\* the rest) applied to zalgo_wrap_python(s) returns s.
C18_UnwrapInvertsWrap ==
    /\ unwrapped # None => unwrapped = Ok(text)
    /\ (wrapped # None /\ wrapped.tag = "Ok") =>
           /\ Chars_after_next(wrapped.value, 3)
                  = zalgo_encode(text).value \o ClaimedSuffix
           /\ Chars_after_next_back(wrapped.value, 88)
                  = << 98, 61, 39 >> \o zalgo_encode(text).value

\* A text longer than one batch, with a newline, came back from Unwrap.
C18_Witness ==
    /\ unwrapped # None
    /\ Len(text) = BATCH_SIZE + 1 /\ text[Len(text)] = 10
    /\ unwrapped = Ok(text)

----------------------------------------------------------------------------
(* The command-line program of src/wrapper and the file functions it       *)
(* calls.  The file system is the content of the input path (src) and of   *)
(* the output path (dst), NoString where there is no file; reading and      *)
(* writing an existing location does not fail.                              *)

\* str::replace(from, to) for a one-byte `from`.
replace(string, from, to) ==
    Flatten([i \in 1..Len(string) |-> IF string[i] = from THEN to ELSE << string[i] >>])

\* text.join(" ")
join(strings) ==
    Flatten([i \in 1..Len(strings) |->
                IF i = 1 THEN strings[i] ELSE << 32 >> \o strings[i]])

\* std::fs::read_to_string(path)
read_to_string(file) ==
    IF file = NoString THEN [tag |-> "Err", kind |-> "Io", error |-> "NotFound"]
    ELSE [tag |-> "Ok", value |-> file]

\* What a Result<String, _> that `?` lets through becomes when it is not
\* Ok: the error to return, or the panic as it is.
Failure(variant, r) ==
    IF r.tag = "Err" THEN [tag |-> "Err", kind |-> variant, error |-> r] ELSE r

\* pub fn encode_file(in_file, out_file) -> Result<(), UnencodableFileError>
encode_file(fs) ==
    LET read == read_to_string(fs.src)
        string_to_encode ==
            replace(replace(read.value, 9, << 32, 32, 32, 32 >>), 13, << >>)
        created == [fs EXCEPT !.dst = << >>]
        encoded == zalgo_encode(string_to_encode)
    IN IF read.tag # "Ok" THEN [files |-> fs, result |-> read]
       ELSE IF fs.dst # NoString
       THEN [files |-> fs, result |-> [tag |-> "Err", kind |-> "OutputFileExists"]]
       ELSE IF encoded.tag # "Ok"
       THEN [files |-> created, result |-> Failure("UnencodableContent", encoded)]
       ELSE [files |-> [created EXCEPT !.dst = encoded.value], result |-> [tag |-> "Ok"]]

\* pub fn decode_file(in_file, out_file) -> Result<(), UndecodableFileError>
decode_file(fs, overflow_checks) ==
    LET read == read_to_string(fs.src)
        string_to_decode == replace(read.value, 13, << >>)
        decoded_string == zalgo_decode(string_to_decode, overflow_checks)
    IN IF read.tag # "Ok" THEN [files |-> fs, result |-> read]
       ELSE IF decoded_string.tag # "Ok"
       THEN [files |-> fs, result |-> Failure("DecodesToInvalidUnicode", decoded_string)]
       ELSE IF fs.dst # NoString
       THEN [files |-> fs, result |-> [tag |-> "Err", kind |-> "OutputFileExists"]]
       ELSE [files |-> [fs EXCEPT !.dst = decoded_string.value], result |-> [tag |-> "Ok"]]

\* match config.out_path { Some(dst) => Ok(std::fs::write(dst, result)?),
\*                         None => { println!("{result}"); Ok(()) } }
write_or_print(config, fs, result) ==
    IF config.out_path
    THEN [files |-> [fs EXCEPT !.dst = result], stdout |-> << >>, exit |-> [tag |-> "Ok"]]
    ELSE [files |-> fs, stdout |-> result \o << 10 >>, exit |-> [tag |-> "Ok"]]

\* Leaving main without a result written or printed.
fail(fs, r) == [files |-> fs, stdout |-> << >>, exit |-> r]

\* fn main() -> Result<(), Box<dyn std::error::Error>>
main(config, fs, overflow_checks) ==
    IF config.out_path /\ fs.dst # NoString /\ ~config.force
    THEN fail(fs, [tag |-> "Err", kind |-> "AlreadyExists"])
    ELSE IF config.mode = "Encode" /\ config.source = "Text"
    THEN LET result == zalgo_encode(join(config.text)) IN
         IF result.tag # "Ok" THEN fail(fs, Failure("Encode", result))
         ELSE write_or_print(config, fs, result.value)
    ELSE IF config.mode = "Encode" /\ config.out_path
    THEN LET r == encode_file(fs) IN
         [files |-> r.files, stdout |-> << >>, exit |-> r.result]
    ELSE IF config.mode = "Encode"
    THEN LET read == read_to_string(fs.src)
             result == zalgo_encode(replace(read.value, 13, << >>))
         IN IF read.tag # "Ok" THEN fail(fs, read)
            ELSE IF result.tag # "Ok" THEN fail(fs, Failure("Encode", result))
            ELSE write_or_print(config, fs, result.value)
    ELSE IF config.source = "Text"
    THEN IF Len(config.text) = 1
         THEN LET result == zalgo_decode(config.text[1], overflow_checks) IN
              IF result.tag # "Ok" THEN fail(fs, Failure("Decode", result))
              ELSE write_or_print(config, fs, result.value)
         ELSE fail(fs, [tag |-> "Err", kind |-> "InvalidData"])
    ELSE IF config.out_path
    THEN LET r == decode_file(fs, overflow_checks) IN
         [files |-> r.files, stdout |-> << >>, exit |-> r.result]
    ELSE LET read == read_to_string(fs.src)
             result == zalgo_decode(read.value, overflow_checks)
         IN IF read.tag # "Ok" THEN fail(fs, read)
            ELSE IF result.tag # "Ok" THEN fail(fs, Failure("Decode", result))
            ELSE write_or_print(config, fs, result.value)

\* The strings given on the command line and found in files: "", "a b",
\* "a\tb\r\n", "\u{eb}", the encodings of "" and of "a b", and "Ea".
CliStrings ==
    { << >>, << 97, 32, 98 >>, << 97, 9, 98, 13, 10 >>, << 195, 171 >>,
      << 69 >>, zalgo_encode(<< 97, 32, 98 >>).value, << 69, 97 >> }

\* The command lines clap accepts: --force requires --out-path.
CommandLines ==
    { c \in [mode : { "Encode", "Decode" },
             source : { "Text", "File" },
             text : { << s >> : s \in CliStrings } \cup { << >>, << << 97 >>, << 98 >> >> },
             out_path : BOOLEAN,
             force : BOOLEAN] :
        /\ c.force => c.out_path
        /\ c.source = "File" => c.text = << >> }

InitCli ==
    /\ cli \in CommandLines
    /\ files \in [src : CliStrings \cup { NoString },
                  dst : { NoString, << 111, 108, 100 >> }]
    /\ stdout = << >>
    /\ exit = None
    /\ CodecIdle /\ ZsIdle /\ IterIdle /\ WrapIdle /\ LegacyIdle /\ GuiIdle

\* One run of the program; exit also keeps the file system it started in.
Main ==
    /\ exit = None
    /\ \E overflow_checks \in BOOLEAN :
          LET r == main(cli, files, overflow_checks) IN
          /\ files' = r.files
          /\ stdout' = r.stdout
          /\ exit' = [result |-> r.exit, before |-> files]
    /\ UNCHANGED cli
    /\ UNCHANGED << vars, zsVars, iterVars, wrapVars, legacyVars, guiVars >>

NextCli == Main

SpecCli == InitCli /\ [][NextCli]_allVars

----------------------------------------------------------------------------
(* Claims about the command-line program.                                  *)

\* C19: with --force and an out_path that exists, every encode or decode
\* command, of a text or of a file, overwrites that file with its result
\* and does not fail because the file is there.
C19_ForceOverwrites ==
    (exit # None /\ cli.force /\ exit.before.dst # NoString) =>
        /\ exit.result.tag = "Err"
              => exit.result.kind \notin { "AlreadyExists", "OutputFileExists" }
        /\ exit.result.tag = "Ok" => files.dst # exit.before.dst


----------------------------------------------------------------------------
(* The overridden nth, last and count of the iterators.  A usize argument  *)
(* is kept as its top bit and the rest: n = hi * 2^63 + lo.                 *)

\* The largest low part of the argument the program passes to nth.
MaxNth == 2

\* core::str::Bytes::nth(k): the byte k places ahead, or None with the
\* iterator emptied when there are not k+1 bytes.
Bytes_nth(bytes, k) ==
    IF k >= Len(bytes) THEN [item |-> << >>, rest |-> << >>]
    ELSE [item |-> << bytes[k + 1] >>, rest |-> SubSeq(bytes, k + 2, Len(bytes))]

\* fn nth(&mut self, n: usize) -> Option<u8>:
\*   self.0.nth(2 * n).zip(self.0.next()).map(|(odd, even)| decode_byte_pair(odd, even))
\* 2 * n is a usize product: with the top bit of n set it panics in a build
\* with overflow checks and wraps to 2 * lo in one without.
DecodedBytes_nth(bytes, n, overflow_checks) ==
    IF n.hi = 1 /\ overflow_checks
    THEN [tag |-> "Panic", msg |-> "attempt to multiply with overflow",
          item |-> << >>, rest |-> bytes]
    ELSE LET odd == Bytes_nth(bytes, 2 * n.lo)
             even == Bytes_next(odd.rest)
         IN [tag |-> "Ok",
             item |-> IF odd.item # << >> /\ even.item # << >>
                      THEN << decode_byte_pair(odd.item[1], even.item[1]) >>
                      ELSE << >>,
             rest |-> even.rest]

\* fn last(mut self) -> Option<u8>:
\*   self.0.len().checked_sub(2).and_then(|l| self.0.nth(l).zip(self.0.next()).map(..))
DecodedBytes_last(bytes) ==
    IF Len(bytes) < 2 THEN << >>
    ELSE LET odd == Bytes_nth(bytes, Len(bytes) - 2)
             even == Bytes_next(odd.rest)
         IN IF odd.item # << >> /\ even.item # << >>
            THEN << decode_byte_pair(odd.item[1], even.item[1]) >>
            ELSE << >>

\* fn count(self) -> usize:  self.0.count() / 2
DecodedBytes_count(bytes) == Len(bytes) \div 2

\* iter.nth(n); DecodedChars::nth is self.0.nth(n).map(char::from)
IterNth ==
    /\ kind \in { "DecodedBytes", "DecodedChars" }
    /\ \E hi \in { 0, 1 }, lo \in 0..MaxNth, overflow_checks \in BOOLEAN :
          LET n == [hi |-> hi, lo |-> lo]
              r == DecodedBytes_nth(iter, n, overflow_checks)
          IN /\ iter' = r.rest
             /\ call' = [op |-> "nth", arg |-> n, tag |-> r.tag,
                         result |-> IF kind = "DecodedChars"
                                    THEN map_char_from(r).item ELSE r.item,
                         before |-> iter, none_before |-> NoneSeen]
    /\ UNCHANGED << iter_zs, kind, front, back >>
    /\ UNCHANGED << vars, zsVars, wrapVars, cliVars, legacyVars, guiVars >>

\* iter.last(): consumes the iterator; DecodedChars::last is
\* self.0.last().map(char::from)
IterLast ==
    /\ kind \in { "DecodedBytes", "DecodedChars" }
    /\ call' = [op |-> "last", tag |-> "Ok",
                result |-> IF kind = "DecodedChars"
                           THEN map_char_from([item |-> DecodedBytes_last(iter),
                                               rest |-> << >>]).item
                           ELSE DecodedBytes_last(iter),
                before |-> iter]
    /\ kind' = "none" /\ iter' = << >> /\ front' = << >> /\ back' = << >>
    /\ UNCHANGED iter_zs
    /\ UNCHANGED << vars, zsVars, wrapVars, cliVars, legacyVars, guiVars >>

\* iter.count(): consumes the iterator; DecodedChars::count is self.0.count()
IterCount ==
    /\ kind \in { "DecodedBytes", "DecodedChars" }
    /\ call' = [op |-> "count", tag |-> "Ok", result |-> << DecodedBytes_count(iter) >>,
                before |-> iter]
    /\ kind' = "none" /\ iter' = << >> /\ front' = << >> /\ back' = << >>
    /\ UNCHANGED iter_zs
    /\ UNCHANGED << vars, zsVars, wrapVars, cliVars, legacyVars, guiVars >>

NextIterAll ==
    \/ IterDecodedBytes
    \/ IterDecodedChars
    \/ IterNext
    \/ IterNextBack
    \/ IterNth
    \/ IterLast
    \/ IterCount

SpecIterAll == InitIter /\ [][NextIterAll]_allVars

RECURSIVE DefaultNth(_, _)
\* Iterator::nth as the trait defines it: next() n times, stopping at the
\* first None, then next() once more.
DefaultNth(bytes, n) ==
    LET r == DecodedBytes_next(bytes) IN
    IF r.item = << >> \/ n = 0 THEN r ELSE DefaultNth(r.rest, n - 1)

RECURSIVE DefaultLast(_, _)
\* Iterator::last as the trait defines it: the latest item of repeated
\* next(), starting from None.
DefaultLast(bytes, latest_item) ==
    LET r == DecodedBytes_next(bytes) IN
    IF r.item = << >> THEN latest_item ELSE DefaultLast(r.rest, r.item)

\* What nth(n) by repeated next() gives for n = hi * 2^63 + lo: a string
\* holds fewer than 2^63 bytes, so with hi = 1 it runs the iterator out.
DefaultNthOf(bytes, n) ==
    IF n.hi = 1 THEN [item |-> << >>, rest |-> << >>] ELSE DefaultNth(bytes, n.lo)

\* C21: in every state of an iterator, nth(n), last() and count() return
\* what their definitions by repeated next() return, and nth(n) leaves the
\* iterator where n+1 calls of next() leave it.
C21_OverridesMatchDefaults ==
    /\ (call # None /\ call.op = "nth") =>
          /\ call.tag = "Ok"
          /\ call.result = DefaultNthOf(call.before, call.arg).item
          /\ iter = DefaultNthOf(call.before, call.arg).rest
    /\ (call # None /\ call.op = "last") =>
          call.result = DefaultLast(call.before, << >>)
    /\ (call # None /\ call.op = "count") =>
          call.result = << RemainingByNext(call.before) >>


----------------------------------------------------------------------------
(* The first crate of the repository (src/src/lib.rs), which encodes one   *)
(* byte at a time, next to the current one on the same input.              *)

\* let v = if c == b'\n' { 111 } else { (c - 11) % 133 - 21 };  on u8
legacy_value(c) == IF c = 10 THEN 111 ELSE ((c - 11) % 133) - 21

RECURSIVE legacy_encode_bytes(_, _, _, _)
\* for c in string_to_compress.bytes() { ... }, from the k-th byte on.
legacy_encode_bytes(string, k, line, result) ==
    IF k >= Len(string) THEN [tag |-> "Ok", value |-> result]
    ELSE LET c == string[k + 1] IN
         IF c = 13 THEN [tag |-> "Err", character |-> c, line |-> line]
         ELSE LET line2 == IF c = 10 THEN line + 1 ELSE line IN
              IF ~(c \in 32..126) /\ c # 10
              THEN [tag |-> "Err", character |-> c, line |-> line2]
              ELSE LET v == legacy_value(c) IN
                   legacy_encode_bytes(string, k + 1, line2,
                       result \o << BitOr(BitAnd(Shr8(v, 6), 1), 204),
                                    BitOr(BitAnd(v, 63), 128) >>)

\* A variant of the first crate's zalgo_encode that counts lines from 0.
legacy_zalgo_encode_LineZero(string_to_compress) ==
    legacy_encode_bytes(string_to_compress, 0, 0, << 69 >>)

\* pub fn zalgo_encode(string_to_compress: &str)
\*     -> Result<String, UnencodableCharacterError>     (src/src/lib.rs)
legacy_zalgo_encode(string_to_compress) ==
    legacy_encode_bytes(string_to_compress, 0, 1, << 69 >>)

\* .bytes().skip(1).step_by(2).zip(compressed.bytes().skip(2).step_by(2))
\*     .map(|(odds, evens)| ...).collect()
\* zip stops at the shorter side: the pairs at offsets (1,2), (3,4), ...
legacy_decode_pairs(compressed) ==
    [k \in 1..(IF Len(compressed) < 2 THEN 0 ELSE (Len(compressed) - 1) \div 2) |->
        decode_byte_pair(compressed[2 * k], compressed[2 * k + 1])]

\* A variant of the first crate's zalgo_decode that decodes an unpaired last
\* byte as if a zero byte followed it.
legacy_zalgo_decode_PadLast(compressed) ==
    from_utf8([k \in 1..(Len(compressed) \div 2) |->
        decode_byte_pair(compressed[2 * k],
                         IF 2 * k + 1 <= Len(compressed)
                         THEN compressed[2 * k + 1] ELSE 0)])

\* pub fn zalgo_decode(compressed: &str) -> Result<String, str::Utf8Error>
legacy_zalgo_decode(compressed) == from_utf8(legacy_decode_pairs(compressed))

\* n bytes of 'a' with a newline at every seventh place: several lines that
\* run across the encoder's batch boundaries.
LinedPadding(n) == [k \in 1..n |-> IF k % 7 = 0 THEN 10 ELSE 97]

\* The inputs of the codec caller, texts of several lines with one more
\* character after a batch boundary, and encodings followed by one byte.
LegacyInputs ==
    Inputs
        \cup { LinedPadding(n) \o t : n \in PadLens \cup { BATCH_SIZE + 2 },
                                      t \in TextsUpTo(MaxTail) }
        \cup { zalgo_encode(t).value \o b : t \in PushTexts \cup { << 90, 97 >> },
                                            b \in { << 97 >>, << 204 >>, << 10 >> } }

InitLegacy ==
    /\ input \in LegacyInputs
    /\ pc = "start"
    /\ enc = None /\ dec = None /\ zs = None /\ pushed = << >> /\ out = None
    /\ ZsIdle /\ IterIdle /\ WrapIdle /\ CliIdle /\ LegacyIdle /\ GuiIdle

\* let encoded = zalgo_codec::zalgo_encode(input)   (the first crate)
LegacyEncode ==
    /\ old_enc = None
    /\ old_enc' = legacy_zalgo_encode(input)
    /\ UNCHANGED << old_dec, guiVars >>
    /\ UNCHANGED << vars, zsVars, iterVars, wrapVars, cliVars >>

\* let decoded = zalgo_codec::zalgo_decode(input)   (the first crate)
LegacyDecode ==
    /\ old_dec = None
    /\ old_dec' = legacy_zalgo_decode(input)
    /\ UNCHANGED << old_enc, guiVars >>
    /\ UNCHANGED << vars, zsVars, iterVars, wrapVars, cliVars >>

NextLegacy ==
    \/ Encode
    \/ DecodeRaw
    \/ LegacyEncode
    \/ LegacyDecode

SpecLegacy == InitLegacy /\ [][NextLegacy]_allVars

DecodedBytesOf(r) == IF r.tag = "Ok" THEN r.value ELSE r.bytes

\* The byte the pair (odd, even) stands for, by arithmetic.
InverseOfPair(odd, even) == (((odd % 2) * 64 + (even % 64) + 22) % 133) + 10

\* C24: on an input of even length >= 2, zalgo_decode (of both crates)
\* decodes the pairs at offsets (1,2), (3,4), ... and ignores the last,
\* unpaired byte: it produces (len-1) div 2 bytes, the same as for the input
\* without its last byte.
C24_UnpairedByteIgnored ==
    (pc = "decoded_raw" /\ old_dec # None
        /\ Len(input) >= 2 /\ Len(input) % 2 = 0) =>
        LET n == (Len(input) - 1) \div 2
            expected == [k \in 1..n |-> InverseOfPair(input[2 * k], input[2 * k + 1])]
            shorter == SubSeq(input, 1, Len(input) - 1)
        IN /\ dec.tag \in { "Ok", "Err" }
           /\ DecodedBytesOf(dec) = expected
           /\ DecodedBytesOf(old_dec) = expected
           /\ Len(DecodedBytesOf(dec)) = n
           /\ \A overflow_checks \in BOOLEAN :
                  zalgo_decode(shorter, overflow_checks) = dec
           /\ legacy_zalgo_decode(shorter) = old_dec

\* The encoding of "Za" followed by one more byte has been decoded by both
\* crates to "Za".
C24_Witness ==
    /\ pc = "decoded_raw" /\ old_dec # None
    /\ Len(input) = 6
    /\ dec = Ok(<< 90, 97 >>)
    /\ old_dec = Ok(<< 90, 97 >>)


\* The bytes the claim calls named non-printable ASCII.
NamedBytes == (0..9) \cup (11..31) \cup { 127 }

\* C23: every byte is in exactly one of three classes: encodable (10 and
\* 32..126), named non-printable ASCII (0..9, 11..31, 127: the table has a
\* name), non-ASCII (128..255: the table has none).  A rejected byte of the
\* second class is reported with its name; any other rejected byte is >= 128,
\* stands at a character boundary i*BATCH_SIZE + j of the input and is
\* reported as the whole character that starts there; zalgo_encode never
\* panics.
C23_ThreeByteClasses ==
    /\ \A b \in 0..255 :
        /\ IsEncodable(b) <=> b \in Allowed
        /\ b \in NamedBytes <=> (~IsEncodable(b) /\ nonprintable_ascii_repr(b) # << >>)
        /\ b \in 128..255 <=> (~IsEncodable(b) /\ nonprintable_ascii_repr(b) = << >>)
    /\ (pc \in { "encoded", "new_failed" } /\ enc.tag # "Ok") =>
        LET i == FirstBadOffset(input)
            b == input[i + 1]
        IN /\ enc.tag = "Err"
           /\ b \in NamedBytes =>
               /\ enc.variant = "UnencodableAscii"
               /\ enc.char = << b >>
               /\ << enc.repr >> = nonprintable_ascii_repr(b)
           /\ b \notin NamedBytes =>
               /\ b >= 128
               /\ enc.variant = "NotAscii"
               /\ IsCharBoundary(input, i)
               /\ enc.char = CharStartingAt(input, i)
               /\ Len(enc.char) >= 2

\* A text longer than one batch has been rejected for a two-byte character
\* right after the batch boundary.
C23_Witness ==
    /\ pc = "encoded"
    /\ enc.tag = "Err" /\ enc.variant = "NotAscii"
    /\ input = Padding(BATCH_SIZE) \o << 195, 171 >>
    /\ enc.char = << 195, 171 >>


----------------------------------------------------------------------------
\* C26: appending commutes with encoding: new(A) after
\* push_zalgo_str(&new(B)) equals new(A followed by B) byte for byte, with
\* one anchor byte only and length len(new(A)) + len(new(B)) - 1; appending
\* new("") leaves the string unchanged.
C26_PushCommutesWithEncode ==
    (latest # None /\ latest.op = "push_zalgo_str") =>
        LET A == TextOf(latest.before)
            B == TextOf(latest.arg)
        IN /\ zalgo_encode(A) = Ok(latest.before)
           /\ zalgo_encode(B) = Ok(latest.arg)
           /\ Ok(zstr) = zalgo_encode(A \o B)
           /\ zstr = << 69 >> \o Flatten([k \in 1..Len(A \o B) |-> ExpectedPair((A \o B)[k])])
           /\ Len(zstr) = Len(latest.before) + Len(latest.arg) - 1
           /\ Cardinality({ k \in 1..Len(zstr) : zstr[k] = 69 }) = 1
           /\ latest.arg = << 69 >> => zstr = latest.before

\* new("B") has had new("\n~") appended and equals new("B\n~").
C26_Witness ==
    /\ latest # None /\ latest.op = "push_zalgo_str"
    /\ TextOf(latest.before) = << 66 >>
    /\ TextOf(latest.arg) = << 10, 126 >>
    /\ Ok(zstr) = zalgo_encode(<< 66, 10, 126 >>)


----------------------------------------------------------------------------
(* The program that changes one ZalgoString in place, and in the end       *)
(* decodes it in place with into_decoded_bytes.                            *)

RECURSIVE IntoDecodedIterations(_, _, _)
\* The iterations of  for r in (1..bytes.len()).step_by(2)  from read index
\* r on: the write index and the read index of each, and the length of the
\* buffer they index.  An iteration that indexes out of bounds is the last.
IntoDecodedIterations(bytes, w, r) ==
    IF r >= Len(bytes) THEN << >>
    ELSE << [w |-> w, r |-> r, len |-> Len(bytes)] >>
             \o (IF r + 1 >= Len(bytes) \/ w >= Len(bytes) THEN << >>
                 ELSE IntoDecodedIterations(bytes, w + 1, r + 2))

\* let bytes = zstr.into_decoded_bytes(): consumes zstr
ZsIntoDecodedBytes ==
    /\ zstr # NoString
    /\ \E overflow_checks \in BOOLEAN :
          latest' = [op |-> "into_decoded_bytes",
                     arg |-> IntoDecodedIterations(zstr, 0, 1),
                     before |-> zstr,
                     result |-> into_decoded_bytes(zstr, overflow_checks)]
    /\ zstr' = NoString
    /\ capacity' = 0
    /\ UNCHANGED other
    /\ UNCHANGED << vars, iterVars, wrapVars, cliVars, legacyVars, guiVars >>

NextZsDecode ==
    \/ ZsNew
    \/ ZsNewOther
    \/ ZsClone
    \/ ZsPushZalgoStr
    \/ ZsTruncate
    \/ ZsClear
    \/ ZsReserve
    \/ ZsReserveExact
    \/ ZsIntoDecodedBytes

SpecZsDecode == InitZs /\ [][NextZsDecode]_allVars

\* C25: in into_decoded_bytes of a ZalgoString built by new, push_zalgo_str,
\* truncate and clear, every iteration has w < r, w = (r-1)/2 and r+1 inside
\* the buffer; no pair is overwritten before it is read (every later read
\* index is above every earlier write index), no index is out of bounds, and
\* the result has decoded_len() bytes.
C25_InPlaceDecodeIsSafe ==
    (latest # None /\ latest.op = "into_decoded_bytes") =>
        LET its == latest.arg IN
        /\ Len(its) = (Len(latest.before) - 1) \div 2
        /\ \A k \in 1..Len(its) :
              /\ its[k].w < its[k].r
              /\ its[k].w = (its[k].r - 1) \div 2
              /\ its[k].r + 1 < its[k].len
              /\ \A m \in 1..k : its[m].w < its[k].r
        /\ latest.result.tag = "Ok"
        /\ Len(latest.result.value) = decoded_len(latest.before)
        /\ latest.result.value = TextOf(latest.before)

\* The encoding of "\n~B", made by pushing new("B") onto new("\n~"), has
\* been decoded in place in three iterations.
C25_Witness ==
    /\ latest # None /\ latest.op = "into_decoded_bytes"
    /\ Len(latest.arg) = 3
    /\ latest.arg[3] = [w |-> 2, r |-> 5, len |-> 7]
    /\ latest.result = Ok(<< 10, 126, 66 >>)


----------------------------------------------------------------------------
\* C27: every byte of zalgo_encode's output after the anchor is >= 0x80
\* (0xCC or 0xCD at odd offsets, 0x80..0xBF at even offsets >= 2), so the
\* encoded text between the quotes of the Python wrapper holds no single
\* quote, backslash or newline: the literal ends at the wrapper's own
\* closing quote.
C27_PayloadNeverEscapesLiteral ==
    (wrapped # None /\ wrapped.tag = "Ok") =>
        LET w == wrapped.value
            payload == SubSeq(w, Len(WrapperPrefix) + 1, Len(w) - Len(ClaimedSuffix))
        IN /\ Ok(payload) = zalgo_encode(text)
           /\ payload[1] = 69
           /\ \A k \in 1..(Len(payload) - 1) :
                 /\ payload[k + 1] >= 128
                 /\ k % 2 = 1 => payload[k + 1] \in { 204, 205 }
                 /\ k % 2 = 0 => payload[k + 1] \in 128..191
           /\ \A k \in 1..Len(payload) : payload[k] \notin { 39, 92, 10, 13 }
           /\ w[3] = 39
           /\ \A k \in 4..Len(w) :
                 (w[k] = 39 /\ \A m \in 4..(k - 1) : w[m] # 39)
                     => k = Len(WrapperPrefix) + Len(payload) + 1

\* The text "'" (a single quote) has been wrapped.
C27_Witness ==
    /\ wrapped # None /\ wrapped.tag = "Ok"
    /\ text = << 39 >>
    /\ Len(wrapped.value) = Len(WrapperPrefix) + 3 + Len(ClaimedSuffix)


----------------------------------------------------------------------------
(* A program that calls the file functions of the library directly on a    *)
(* file system of two paths, the input file src and the output file dst.   *)

\* pub fn encode_python_file(in_file, out_file) -> Result<(), UnencodableFileError>
encode_python_file(fs) ==
    LET read == read_to_string(fs.src)
        string_to_encode ==
            replace(replace(read.value, 9, << 32, 32, 32, 32 >>), 13, << >>)
        created == [fs EXCEPT !.dst = << >>]
        wrapped_string == zalgo_wrap_python(string_to_encode)
    IN IF read.tag # "Ok" THEN [files |-> fs, result |-> read]
       ELSE IF fs.dst # NoString
       THEN [files |-> fs, result |-> [tag |-> "Err", kind |-> "OutputFileExists"]]
       ELSE IF wrapped_string.tag # "Ok"
       THEN [files |-> created, result |-> Failure("UnencodableContent", wrapped_string)]
       ELSE [files |-> [created EXCEPT !.dst = wrapped_string.value],
             result |-> [tag |-> "Ok"]]

\* pub fn encode_file(in_file, out_file) -> Result<(), Box<dyn Error>> of the
\* first crate (src/src/lib.rs): it encodes, and decodes again to compare,
\* before it looks at the output path.
legacy_encode_file(fs) ==
    LET read == read_to_string(fs.src)
        string_to_encode ==
            replace(replace(read.value, 9, << 32, 32, 32, 32 >>), 13, << >>)
        encoded_string == legacy_zalgo_encode(string_to_encode)
        decoded == legacy_zalgo_decode(encoded_string.value)
    IN IF read.tag # "Ok" THEN [files |-> fs, result |-> read]
       ELSE IF encoded_string.tag # "Ok"
       THEN [files |-> fs, result |-> Failure("UnencodableContent", encoded_string)]
       ELSE IF decoded.tag # "Ok"
       THEN [files |-> fs, result |-> Failure("Utf8Error", decoded)]
       ELSE IF decoded.value # string_to_encode
       THEN [files |-> fs, result |-> [tag |-> "Err", kind |-> "Corrupted"]]
       ELSE IF fs.dst # NoString
       THEN [files |-> fs, result |-> [tag |-> "Err", kind |-> "OutputFileExists"]]
       ELSE [files |-> [fs EXCEPT !.dst = encoded_string.value],
             result |-> [tag |-> "Ok"]]

\* What the input file holds: the command line's strings, short texts, or
\* nothing (no such file).
FileContents == CliStrings \cup TextsUpTo(MaxLen) \cup { NoString }

InitFiles ==
    /\ cli = None
    /\ files \in [src : FileContents, dst : { NoString, << 111, 108, 100 >> }]
    /\ stdout = << >>
    /\ exit = None
    /\ CodecIdle /\ ZsIdle /\ IterIdle /\ WrapIdle /\ LegacyIdle /\ GuiIdle

\* One call f(src, dst); exit keeps the call, its result and the file system
\* it started in.
CallOnFiles(name, r) ==
    /\ exit = None
    /\ files' = r.files
    /\ exit' = [call |-> name, result |-> r.result, before |-> files]
    /\ UNCHANGED << cli, stdout >>
    /\ UNCHANGED << vars, zsVars, iterVars, wrapVars, legacyVars, guiVars >>

\* zalgo_codec_common::encode_file("src", "dst")
EncodeFile == CallOnFiles("encode_file", encode_file(files))

\* zalgo_codec_common::encode_python_file("src", "dst")
EncodePythonFile == CallOnFiles("encode_python_file", encode_python_file(files))

\* zalgo_codec::encode_file("src", "dst")   (the first crate)
LegacyEncodeFile == CallOnFiles("legacy_encode_file", legacy_encode_file(files))

NextFiles ==
    \/ EncodeFile
    \/ EncodePythonFile
    \/ LegacyEncodeFile

SpecFiles == InitFiles /\ [][NextFiles]_allVars

\* C28: when encode_file or encode_python_file of src/common/src/files.rs
\* fails because the content of the input file cannot be encoded, the file
\* system is as it was before the call: no output file has been created.
C28_FailedEncodeLeavesNoFile ==
    (/\ exit # None
     /\ exit.call \in { "encode_file", "encode_python_file" }
     /\ exit.result.tag = "Err"
     /\ exit.result.kind = "UnencodableContent") =>
        /\ files = exit.before
        /\ files.dst = NoString


----------------------------------------------------------------------------
(* The graphical program (src/codec/src/gui.rs).  update handles one       *)
(* message at a time; a Command::perform future runs on the executor and   *)
(* delivers its message when it completes, in no fixed order.              *)

MaxNotifications == 3
MaxCommands == 2

\* What the user types or pastes: "", "a", "\u{eb}" and the encoding of "a".
GuiTexts == { << >>, << 97 >>, << 195, 171 >>, zalgo_encode(<< 97 >>).value }

GuiButton == { "Encode", "Decode", "Wrap", "Unwrap", "Copy", "SaveAs" }

\* |res| match res { Ok(v) => CodecFinished(v),
\*                   Err(e) => PushNotification(e.to_string()) }
\* Of the error's text only which error it is is kept.  A future that
\* panics delivers no message.
codec_message(res) ==
    IF res.tag = "Ok" THEN << [tag |-> "CodecFinished", value |-> res.value] >>
    ELSE IF res.tag = "Err"
    THEN << [tag |-> "PushNotification", value |-> res.variant] >>
    ELSE << >>

\* The message of the command update returns for
\* ToplevelMessage::User(UserAction::Pressed(button)), if it returns one;
\* failed tells whether set_contents or std::fs::write returned an error,
\* chosen tells whether the file dialog returned a path.
pressed(button, field, failed, chosen, overflow_checks) ==
    CASE button = "Encode" -> codec_message(zalgo_encode(field))
      [] button = "Decode" ->
            IF field = << >>
            THEN << [tag |-> "PushNotification", value |-> "the input string was empty"] >>
            ELSE codec_message(zalgo_decode(field, overflow_checks))
      [] button = "Wrap" -> codec_message(zalgo_wrap_python(field))
      [] button = "Unwrap" -> codec_message(unwrap(field, overflow_checks))
      [] button = "Copy" ->
            IF failed THEN << [tag |-> "PushNotification", value |-> "clipboard"] >>
            ELSE << >>
      [] button = "SaveAs" ->
            IF chosen /\ failed THEN << [tag |-> "PushNotification", value |-> "io"] >>
            ELSE << >>

\* ZalgoCodecGui::new()
InitGui ==
    /\ input_field = << >>
    /\ output_field = << >>
    /\ notifications = << >>
    /\ commands = << >>
    /\ pushes = 0
    /\ handled = None
    /\ CodecIdle /\ ZsIdle /\ IterIdle /\ WrapIdle /\ CliIdle /\ LegacyIdle

\* update(User(UserAction::EditedInputText(text)))
EditedInputText ==
    /\ \E t \in GuiTexts : t # input_field /\ input_field' = t
    /\ UNCHANGED << output_field, notifications, commands, pushes, handled >>
    /\ UNCHANGED << vars, zsVars, iterVars, wrapVars, cliVars, legacyVars >>

\* update(User(UserAction::Pressed(button)))
Pressed ==
    /\ Len(commands) < MaxCommands
    /\ pushes + Len(commands) < MaxNotifications
    /\ \E button \in GuiButton, failed, chosen, overflow_checks \in BOOLEAN :
          commands' = commands
              \o pressed(button, IF button \in { "Copy", "SaveAs" }
                                 THEN output_field ELSE input_field,
                         failed, chosen, overflow_checks)
    /\ UNCHANGED << input_field, output_field, notifications, pushes, handled >>
    /\ UNCHANGED << vars, zsVars, iterVars, wrapVars, cliVars, legacyVars >>

\* The commands left when the k-th has delivered its message.
Delivered(k) == SubSeq(commands, 1, k - 1) \o SubSeq(commands, k + 1, Len(commands))

\* The timers still running: the futures that sleep five seconds.
Timers == { k \in 1..Len(commands) : commands[k].tag = "TimerFinised" }

\* update(CodecFinished(result)):  self.output_field = result
CodecFinished ==
    /\ \E k \in 1..Len(commands) :
          /\ commands[k].tag = "CodecFinished"
          /\ output_field' = commands[k].value
          /\ commands' = Delivered(k)
    /\ UNCHANGED << input_field, notifications, pushes, handled >>
    /\ UNCHANGED << vars, zsVars, iterVars, wrapVars, cliVars, legacyVars >>

\* update(PushNotification(notification)):  self.notifications.push(..), and
\* the command returned sleeps five seconds and then delivers TimerFinised.
\* The notification and its timer carry the number of the push.
PushNotification ==
    /\ \E k \in 1..Len(commands) :
          /\ commands[k].tag = "PushNotification"
          /\ notifications' =
                Append(notifications, [msg |-> commands[k].value, push |-> pushes + 1])
          /\ commands' = Append(Delivered(k), [tag |-> "TimerFinised", push |-> pushes + 1])
    /\ pushes' = pushes + 1
    /\ handled' = [op |-> "push", shown |-> Len(notifications),
                   timers |-> Cardinality(Timers)]
    /\ UNCHANGED << input_field, output_field >>
    /\ UNCHANGED << vars, zsVars, iterVars, wrapVars, cliVars, legacyVars >>

\* A variant of Vec_pop that removes every element.
Vec_pop_All(v) == << >>

\* Vec::pop: the vector without its last element, if it has one.
Vec_pop(v) == IF v = << >> THEN << >> ELSE SubSeq(v, 1, Len(v) - 1)

\* update(TimerFinised(TimedAction::PopNotification)):
\* self.notifications.pop()
TimerFinised ==
    /\ \E k \in Timers :
          /\ commands' = Delivered(k)
          /\ handled' = [op |-> "pop", timer |-> commands[k].push,
                         shown |-> Len(notifications),
                         timers |-> Cardinality(Timers),
                         removed |-> IF notifications = << >> THEN 0
                                     ELSE notifications[Len(notifications)].push]
    /\ notifications' = Vec_pop(notifications)
    /\ UNCHANGED << input_field, output_field, pushes >>
    /\ UNCHANGED << vars, zsVars, iterVars, wrapVars, cliVars, legacyVars >>

NextGui ==
    \/ EditedInputText
    \/ Pressed
    \/ CodecFinished
    \/ PushNotification
    \/ TimerFinised

SpecGui == InitGui /\ [][NextGui]_allVars


\* C29: every PushNotification adds one notification and starts one timer,
\* every timer completion removes one notification and never finds the list
\* empty; in every state as many notifications are displayed as timers are
\* running, and when no timer is running the list is empty.
C29_NotificationsMatchTimers ==
    /\ Len(notifications) = Cardinality(Timers)
    /\ Timers = { } => notifications = << >>
    /\ (handled # None /\ handled.op = "push") =>
          /\ Len(notifications) = handled.shown + 1
          /\ Cardinality(Timers) = handled.timers + 1
    /\ (handled # None /\ handled.op = "pop") =>
          /\ handled.shown >= 1
          /\ handled.removed # 0
          /\ Len(notifications) = handled.shown - 1
          /\ Cardinality(Timers) = handled.timers - 1

\* Two notifications were displayed, one timer has completed and removed one
\* of them, and the other is still there with its timer running.
C29_Witness ==
    /\ handled # None /\ handled.op = "pop"
    /\ handled.shown = 2
    /\ Len(notifications) = 1
    /\ Cardinality(Timers) = 1

\* C30: the notification a completing timer removes is the one whose push
\* started that timer, also when several are displayed.
C30_OwnTimerRemoves ==
    (handled # None /\ handled.op = "pop") => handled.removed = handled.timer

============================================================================
